---------------------------- MODULE Spec2Model ----------------------------
(***************************************************************************)
(* A model of the job application agent: the in-memory job catalog         *)
(* (src/src/scraper.py), the skill-overlap relevance scorer                *)
(* (src/src/classifier.py), the resume customizer (src/src/customizer.py)  *)
(* and the workflow orchestrator (src/src/agent.py).                       *)
(*                                                                         *)
(* A string literal of the program is a TLA+ string; CharTable gives its   *)
(* characters, and str.lower, str.split, str.join and the `in` operator    *)
(* are computed on those characters.  A string the program computes is a   *)
(* sequence of one-character strings.  A Python list that two dictionaries *)
(* can share (a job's requirements) lives in the heap req_lists and is     *)
(* named by its index there: dict.copy() copies the index, as Python       *)
(* copies the reference.  A float is an exact fraction                     *)
(* <<numerator, denominator>> in lowest terms.                             *)
(***************************************************************************)
EXTENDS Integers, Sequences, FiniteSets, TLC

VARIABLES
  sample_jobs,       \* JobScraper.sample_jobs: the catalog, a list of job dicts
  req_lists,         \* heap of the requirements lists the job dicts refer to
  sample_resume,     \* ResumeCustomizer.sample_resume
  workflow_results,  \* JobApplicationAgent.workflow_results
  last,              \* the last operation called: its name and arguments
  ret,               \* what the last operation returned to the caller
  returned,          \* what each run_workflow call since construction/clear_history returned
  adds,              \* number of add_sample_job calls made
  mutations,         \* number of caller-side changes inside a requirements list
  cleared,           \* clear_history was called and run_workflow not since
  model,             \* ResumeCustomizer.model
  vocab,             \* ResumeCustomizer.vocab
  model_calls,       \* number of forward or generate calls made on the model
  config,            \* Configuration: its section dictionaries, by attribute name
  metrics,           \* ApplicationMonitor.metrics: the samples held, oldest first
  clock,             \* the time of day, in seconds since the monitor was built
  run,               \* the run_continuous call under way: its position and locals
  generation,        \* the MAYINIModel.generate call under way: its position and locals
  trainer            \* the ModelTrainer.train call under way: its position and locals

vars == <<sample_jobs, req_lists, sample_resume, workflow_results, last, ret,
          returned, adds, mutations, cleared, model, vocab, model_calls, config,
          metrics, clock, run, generation, trainer>>

-----------------------------------------------------------------------------
(* Bounds of the model *)

MaxAdds == 1        \* add_sample_job calls in one behaviour
MaxRuns == 2        \* run_workflow calls between two clear_history calls
MaxMutations == 1   \* caller-side changes inside one requirements list
MaxTextLen == 3     \* length of the texts clean_text is given, the tests' own apart
MaxCollections == 1002  \* collect_metrics calls made on one monitor
MaxSamples == 3     \* samples one run_continuous call takes

-----------------------------------------------------------------------------
(* Python string and list primitives *)

Min(a, b) == IF a <= b THEN a ELSE b
Max(a, b) == IF a >= b THEN a ELSE b

UpperToLower ==
  [A |-> "a", B |-> "b", C |-> "c", D |-> "d", E |-> "e", F |-> "f", G |-> "g",
   H |-> "h", I |-> "i", J |-> "j", K |-> "k", L |-> "l", M |-> "m", N |-> "n",
   O |-> "o", P |-> "p", Q |-> "q", R |-> "r", S |-> "s", T |-> "t", U |-> "u",
   V |-> "v", W |-> "w", X |-> "x", Y |-> "y", Z |-> "z"]

LowerChar(c) == IF c \in DOMAIN UpperToLower THEN UpperToLower[c] ELSE c

\* str.lower()
Lower(s) == [i \in 1..Len(s) |-> LowerChar(s[i])]

Whitespace == {" ", "\t", "\n"}

\* `sub in text` for two strings
Contains(sub, text) ==
  \E i \in 0..(Len(text) - Len(sub)) :
    \A j \in 1..Len(sub) : text[i + j] = sub[j]

\* str.split() without arguments: the maximal runs of non-whitespace characters
RECURSIVE SplitFrom(_, _, _)
SplitFrom(s, i, word) ==
  IF i > Len(s)
    THEN IF word = <<>> THEN <<>> ELSE <<word>>
    ELSE IF s[i] \in Whitespace
      THEN IF word = <<>> THEN SplitFrom(s, i + 1, <<>>)
                          ELSE <<word>> \o SplitFrom(s, i + 1, <<>>)
      ELSE SplitFrom(s, i + 1, Append(word, s[i]))

Split(s) == SplitFrom(s, 1, <<>>)

\* seq[:n], for any integer n
SliceTo(seq, n) ==
  IF n >= 0 THEN SubSeq(seq, 1, Min(n, Len(seq)))
            ELSE SubSeq(seq, 1, Max(Len(seq) + n, 0))

\* the set of the elements of a list
Range(seq) == {seq[i] : i \in 1..Len(seq)}


\* Python's None
None == [py_none |-> TRUE]

\* dict.get(key, default)
Get(d, key, default) == IF key \in DOMAIN d THEN d[key] ELSE default

\* dict.copy(): a new dictionary with the same values; a list value is shared
DictCopy(d) == d

\* job.get('requirements', []): the list the job's key refers to, if it has the key
Requirements(job, lists) ==
  IF "requirements" \in DOMAIN job THEN lists[job.requirements] ELSE <<>>

-----------------------------------------------------------------------------
(* Exact fractions for the floats of the program *)

RECURSIVE GCD(_, _)
GCD(a, b) == IF b = 0 THEN a ELSE GCD(b, a % b)

Frac(n, d) == LET g == GCD(n, d) IN <<n \div g, d \div g>>

FracGeq(x, y) == x[1] * y[2] >= y[1] * x[2]
FracLt(x, y) == x[1] * y[2] < y[1] * x[2]
FracAdd(x, y) == Frac(x[1] * y[2] + y[1] * x[2], x[2] * y[2])

Zero == Frac(0, 1)
One == Frac(1, 1)

-----------------------------------------------------------------------------
(* The characters of the program's string literals and of the callers' inputs *)

CharTable ==
  ("Senior Python Developer" :>
       <<"S","e","n","i","o","r"," ","P","y","t","h","o","n"," ","D","e","v","e","l","o",
       "p","e","r">>)
  @@ ("Remote" :>
       <<"R","e","m","o","t","e">>)
  @@ ("We are looking for an experienced Python developer with 5+ years expertise in Django, FastAPI, and cloud technologies." :>
       <<"W","e"," ","a","r","e"," ","l","o","o","k","i","n","g"," ","f","o","r"," ","a",
       "n"," ","e","x","p","e","r","i","e","n","c","e","d"," ","P","y","t","h","o","n"," ",
       "d","e","v","e","l","o","p","e","r"," ","w","i","t","h"," ","5","+"," ","y","e","a",
       "r","s"," ","e","x","p","e","r","t","i","s","e"," ","i","n"," ","D","j","a","n","g",
       "o",","," ","F","a","s","t","A","P","I",","," ","a","n","d"," ","c","l","o","u","d",
       " ","t","e","c","h","n","o","l","o","g","i","e","s",".">>)
  @@ ("Python" :>
       <<"P","y","t","h","o","n">>)
  @@ ("Django" :>
       <<"D","j","a","n","g","o">>)
  @@ ("FastAPI" :>
       <<"F","a","s","t","A","P","I">>)
  @@ ("Docker" :>
       <<"D","o","c","k","e","r">>)
  @@ ("AWS" :>
       <<"A","W","S">>)
  @@ ("PostgreSQL" :>
       <<"P","o","s","t","g","r","e","S","Q","L">>)
  @@ ("REST API" :>
       <<"R","E","S","T"," ","A","P","I">>)
  @@ ("React Frontend Developer" :>
       <<"R","e","a","c","t"," ","F","r","o","n","t","e","n","d"," ","D","e","v","e","l",
       "o","p","e","r">>)
  @@ ("San Francisco, CA" :>
       <<"S","a","n"," ","F","r","a","n","c","i","s","c","o",","," ","C","A">>)
  @@ ("Build amazing web applications with React, TypeScript, and modern frontend tools." :>
       <<"B","u","i","l","d"," ","a","m","a","z","i","n","g"," ","w","e","b"," ","a","p",
       "p","l","i","c","a","t","i","o","n","s"," ","w","i","t","h"," ","R","e","a","c","t",
       ","," ","T","y","p","e","S","c","r","i","p","t",","," ","a","n","d"," ","m","o","d",
       "e","r","n"," ","f","r","o","n","t","e","n","d"," ","t","o","o","l","s",".">>)
  @@ ("React" :>
       <<"R","e","a","c","t">>)
  @@ ("TypeScript" :>
       <<"T","y","p","e","S","c","r","i","p","t">>)
  @@ ("JavaScript" :>
       <<"J","a","v","a","S","c","r","i","p","t">>)
  @@ ("CSS" :>
       <<"C","S","S">>)
  @@ ("Git" :>
       <<"G","i","t">>)
  @@ ("Machine Learning Engineer" :>
       <<"M","a","c","h","i","n","e"," ","L","e","a","r","n","i","n","g"," ","E","n","g",
       "i","n","e","e","r">>)
  @@ ("Develop and deploy machine learning models using TensorFlow, PyTorch, and cloud infrastructure." :>
       <<"D","e","v","e","l","o","p"," ","a","n","d"," ","d","e","p","l","o","y"," ","m",
       "a","c","h","i","n","e"," ","l","e","a","r","n","i","n","g"," ","m","o","d","e","l",
       "s"," ","u","s","i","n","g"," ","T","e","n","s","o","r","F","l","o","w",","," ","P",
       "y","T","o","r","c","h",","," ","a","n","d"," ","c","l","o","u","d"," ","i","n","f",
       "r","a","s","t","r","u","c","t","u","r","e",".">>)
  @@ ("Machine Learning" :>
       <<"M","a","c","h","i","n","e"," ","L","e","a","r","n","i","n","g">>)
  @@ ("TensorFlow" :>
       <<"T","e","n","s","o","r","F","l","o","w">>)
  @@ ("PyTorch" :>
       <<"P","y","T","o","r","c","h">>)
  @@ ("SQL" :>
       <<"S","Q","L">>)
  @@ ("DevOps Engineer" :>
       <<"D","e","v","O","p","s"," ","E","n","g","i","n","e","e","r">>)
  @@ ("New York, NY" :>
       <<"N","e","w"," ","Y","o","r","k",","," ","N","Y">>)
  @@ ("Manage cloud infrastructure, CI/CD pipelines, and deployment automation." :>
       <<"M","a","n","a","g","e"," ","c","l","o","u","d"," ","i","n","f","r","a","s","t",
       "r","u","c","t","u","r","e",","," ","C","I","/","C","D"," ","p","i","p","e","l","i",
       "n","e","s",","," ","a","n","d"," ","d","e","p","l","o","y","m","e","n","t"," ","a",
       "u","t","o","m","a","t","i","o","n",".">>)
  @@ ("Kubernetes" :>
       <<"K","u","b","e","r","n","e","t","e","s">>)
  @@ ("Jenkins" :>
       <<"J","e","n","k","i","n","s">>)
  @@ ("Terraform" :>
       <<"T","e","r","r","a","f","o","r","m">>)
  @@ ("Linux" :>
       <<"L","i","n","u","x">>)
  @@ ("Full Stack Developer" :>
       <<"F","u","l","l"," ","S","t","a","c","k"," ","D","e","v","e","l","o","p","e","r">>)
  @@ ("Austin, TX" :>
       <<"A","u","s","t","i","n",","," ","T","X">>)
  @@ ("Build end-to-end web applications using modern tech stack. Startup environment." :>
       <<"B","u","i","l","d"," ","e","n","d","-","t","o","-","e","n","d"," ","w","e","b",
       " ","a","p","p","l","i","c","a","t","i","o","n","s"," ","u","s","i","n","g"," ","m",
       "o","d","e","r","n"," ","t","e","c","h"," ","s","t","a","c","k","."," ","S","t","a",
       "r","t","u","p"," ","e","n","v","i","r","o","n","m","e","n","t",".">>)
  @@ ("Node.js" :>
       <<"N","o","d","e",".","j","s">>)
  @@ ("MongoDB" :>
       <<"M","o","n","g","o","D","B">>)
  @@ ("Data Engineer" :>
       <<"D","a","t","a"," ","E","n","g","i","n","e","e","r">>)
  @@ ("Seattle, WA" :>
       <<"S","e","a","t","t","l","e",","," ","W","A">>)
  @@ ("Build data pipelines and infrastructure for analytics at scale." :>
       <<"B","u","i","l","d"," ","d","a","t","a"," ","p","i","p","e","l","i","n","e","s",
       " ","a","n","d"," ","i","n","f","r","a","s","t","r","u","c","t","u","r","e"," ","f",
       "o","r"," ","a","n","a","l","y","t","i","c","s"," ","a","t"," ","s","c","a","l","e",
       ".">>)
  @@ ("Spark" :>
       <<"S","p","a","r","k">>)
  @@ ("Kafka" :>
       <<"K","a","f","k","a">>)
  @@ ("Airflow" :>
       <<"A","i","r","f","l","o","w">>)
  @@ ("ETL" :>
       <<"E","T","L">>)
  @@ ("Backend Engineer" :>
       <<"B","a","c","k","e","n","d"," ","E","n","g","i","n","e","e","r">>)
  @@ ("Design and implement scalable microservices architecture." :>
       <<"D","e","s","i","g","n"," ","a","n","d"," ","i","m","p","l","e","m","e","n","t",
       " ","s","c","a","l","a","b","l","e"," ","m","i","c","r","o","s","e","r","v","i","c",
       "e","s"," ","a","r","c","h","i","t","e","c","t","u","r","e",".">>)
  @@ ("Java" :>
       <<"J","a","v","a">>)
  @@ ("Spring" :>
       <<"S","p","r","i","n","g">>)
  @@ ("Microservices" :>
       <<"M","i","c","r","o","s","e","r","v","i","c","e","s">>)
  @@ ("Cloud Architect" :>
       <<"C","l","o","u","d"," ","A","r","c","h","i","t","e","c","t">>)
  @@ ("Boston, MA" :>
       <<"B","o","s","t","o","n",","," ","M","A">>)
  @@ ("Design cloud-native solutions and lead architecture decisions." :>
       <<"D","e","s","i","g","n"," ","c","l","o","u","d","-","n","a","t","i","v","e"," ",
       "s","o","l","u","t","i","o","n","s"," ","a","n","d"," ","l","e","a","d"," ","a","r",
       "c","h","i","t","e","c","t","u","r","e"," ","d","e","c","i","s","i","o","n","s",".">>)
  @@ ("Azure" :>
       <<"A","z","u","r","e">>)
  @@ ("Led team of 8 engineers developing microservices platform serving 10M+ users" :>
       <<"L","e","d"," ","t","e","a","m"," ","o","f"," ","8"," ","e","n","g","i","n","e",
       "e","r","s"," ","d","e","v","e","l","o","p","i","n","g"," ","m","i","c","r","o","s",
       "e","r","v","i","c","e","s"," ","p","l","a","t","f","o","r","m"," ","s","e","r","v",
       "i","n","g"," ","1","0","M","+"," ","u","s","e","r","s">>)
  @@ ("Architected and deployed Kubernetes infrastructure reducing deployment time by 70%" :>
       <<"A","r","c","h","i","t","e","c","t","e","d"," ","a","n","d"," ","d","e","p","l",
       "o","y","e","d"," ","K","u","b","e","r","n","e","t","e","s"," ","i","n","f","r","a",
       "s","t","r","u","c","t","u","r","e"," ","r","e","d","u","c","i","n","g"," ","d","e",
       "p","l","o","y","m","e","n","t"," ","t","i","m","e"," ","b","y"," ","7","0","%">>)
  @@ ("Implemented ML pipeline processing 1B+ events daily with 99.9% uptime" :>
       <<"I","m","p","l","e","m","e","n","t","e","d"," ","M","L"," ","p","i","p","e","l",
       "i","n","e"," ","p","r","o","c","e","s","s","i","n","g"," ","1","B","+"," ","e","v",
       "e","n","t","s"," ","d","a","i","l","y"," ","w","i","t","h"," ","9","9",".","9","%",
       " ","u","p","t","i","m","e">>)
  @@ ("Reduced API latency by 60% through query optimization and caching strategies" :>
       <<"R","e","d","u","c","e","d"," ","A","P","I"," ","l","a","t","e","n","c","y"," ",
       "b","y"," ","6","0","%"," ","t","h","r","o","u","g","h"," ","q","u","e","r","y"," ",
       "o","p","t","i","m","i","z","a","t","i","o","n"," ","a","n","d"," ","c","a","c","h",
       "i","n","g"," ","s","t","r","a","t","e","g","i","e","s">>)
  @@ ("" :>
       <<>>)
  @@ (" " :>
       <<" ">>)
  @@ ("python" :>
       <<"p","y","t","h","o","n">>)
  @@ ("python docker" :>
       <<"p","y","t","h","o","n"," ","d","o","c","k","e","r">>)
  @@ ("docker" :>
       <<"d","o","c","k","e","r">>)
  @@ ("nonexistent_xyz" :>
       <<"n","o","n","e","x","i","s","t","e","n","t","_","x","y","z">>)
  @@ (" JAVA " :>
       <<" ","J","A","V","A"," ">>)
  @@ ("ca" :>
       <<"c","a">>)
  @@ ("Test Position" :>
       <<"T","e","s","t"," ","P","o","s","i","t","i","o","n">>)
  @@ ("Test Location" :>
       <<"T","e","s","t"," ","L","o","c","a","t","i","o","n">>)
  @@ ("Python testing" :>
       <<"P","y","t","h","o","n"," ","t","e","s","t","i","n","g">>)
  @@ ("Python Tester" :>
       <<"P","y","t","h","o","n"," ","T","e","s","t","e","r">>)
  @@ ("Test position" :>
       <<"T","e","s","t"," ","p","o","s","i","t","i","o","n">>)
  @@ ("Test Skill" :>
       <<"T","e","s","t"," ","S","k","i","l","l">>)
  @@ ("NonexistentSkill123" :>
       <<"N","o","n","e","x","i","s","t","e","n","t","S","k","i","l","l","1","2","3">>)
  @@ ("Modified Title" :>
       <<"M","o","d","i","f","i","e","d"," ","T","i","t","l","e">>)
  @@ ("PYTHON" :>
       <<"P","Y","T","H","O","N">>)
  @@ ("DOCKER" :>
       <<"D","O","C","K","E","R">>)
  @@ ("Python Developer" :>
       <<"P","y","t","h","o","n"," ","D","e","v","e","l","o","p","e","r">>)
  @@ ("Job 1" :>
       <<"J","o","b"," ","1">>)
  @@ ("Job 2" :>
       <<"J","o","b"," ","2">>)
  @@ ("Job 3" :>
       <<"J","o","b"," ","3">>)
  @@ ("microservices" :>
       <<"m","i","c","r","o","s","e","r","v","i","c","e","s">>)
  @@ ("kubernetes" :>
       <<"k","u","b","e","r","n","e","t","e","s">>)
  @@ ("Go" :>
       <<"G","o">>)
  @@ ("Rust" :>
       <<"R","u","s","t">>)
  @@ ("Python Programming!@#$ Expert" :>
       <<"P","y","t","h","o","n"," ","P","r","o","g","r","a","m","m","i","n","g","!","@",
       "#","$"," ","E","x","p","e","r","t">>)
  @@ ("C++ & C# developer" :>
       <<"C","+","+"," ","&"," ","C","#"," ","d","e","v","e","l","o","p","e","r">>)
  @@ ("python programming expert" :>
       <<"p","y","t","h","o","n"," ","p","r","o","g","r","a","m","m","i","n","g"," ","e",
       "x","p","e","r","t">>)

\* the characters of a string
Chars(s) == CharTable[s]

-----------------------------------------------------------------------------
(* The catalog JobScraper.__init__ builds (src/src/scraper.py:17-114) *)

InitialJobs ==
  <<
    [id |-> "job_001",
     title |-> "Senior Python Developer",
     company |-> "Tech Giants Inc",
     location |-> "Remote",
     description |->
       "We are looking for an experienced Python developer with 5+ years expertise in Django, FastAPI, and cloud technologies.",
     requirements |-> 1,
     experience_required |-> 5,
     salary_range |-> "$120k - $160k",
     posted_date |-> "2025-11-01",
     job_type |-> "Full-time"],
    [id |-> "job_002",
     title |-> "React Frontend Developer",
     company |-> "Innovation Labs",
     location |-> "San Francisco, CA",
     description |->
       "Build amazing web applications with React, TypeScript, and modern frontend tools.",
     requirements |-> 2,
     experience_required |-> 3,
     salary_range |-> "$100k - $140k",
     posted_date |-> "2025-11-03",
     job_type |-> "Full-time"],
    [id |-> "job_003",
     title |-> "Machine Learning Engineer",
     company |-> "AI Solutions Corp",
     location |-> "Remote",
     description |->
       "Develop and deploy machine learning models using TensorFlow, PyTorch, and cloud infrastructure.",
     requirements |-> 3,
     experience_required |-> 4,
     salary_range |-> "$130k - $180k",
     posted_date |-> "2025-11-05",
     job_type |-> "Full-time"],
    [id |-> "job_004",
     title |-> "DevOps Engineer",
     company |-> "Cloud Systems Ltd",
     location |-> "New York, NY",
     description |->
       "Manage cloud infrastructure, CI/CD pipelines, and deployment automation.",
     requirements |-> 4,
     experience_required |-> 3,
     salary_range |-> "$110k - $150k",
     posted_date |-> "2025-11-06",
     job_type |-> "Full-time"],
    [id |-> "job_005",
     title |-> "Full Stack Developer",
     company |-> "StartUp Co",
     location |-> "Austin, TX",
     description |->
       "Build end-to-end web applications using modern tech stack. Startup environment.",
     requirements |-> 5,
     experience_required |-> 2,
     salary_range |-> "$90k - $130k",
     posted_date |-> "2025-11-07",
     job_type |-> "Full-time"],
    [id |-> "job_006",
     title |-> "Data Engineer",
     company |-> "Data Corp",
     location |-> "Seattle, WA",
     description |->
       "Build data pipelines and infrastructure for analytics at scale.",
     requirements |-> 6,
     experience_required |-> 4,
     salary_range |-> "$120k - $160k",
     posted_date |-> "2025-11-08",
     job_type |-> "Full-time"],
    [id |-> "job_007",
     title |-> "Backend Engineer",
     company |-> "Microservices Inc",
     location |-> "Remote",
     description |->
       "Design and implement scalable microservices architecture.",
     requirements |-> 7,
     experience_required |-> 5,
     salary_range |-> "$125k - $170k",
     posted_date |-> "2025-11-09",
     job_type |-> "Full-time"],
    [id |-> "job_008",
     title |-> "Cloud Architect",
     company |-> "Enterprise Tech",
     location |-> "Boston, MA",
     description |->
       "Design cloud-native solutions and lead architecture decisions.",
     requirements |-> 8,
     experience_required |-> 7,
     salary_range |-> "$150k - $200k",
     posted_date |-> "2025-11-10",
     job_type |-> "Full-time"]
  >>

\* the requirements lists of the eight jobs, in the heap at indices 1..8
InitialLists ==
  <<
    <<"Python", "Django", "FastAPI", "Docker", "AWS", "PostgreSQL", "REST API">>,
    <<"React", "TypeScript", "JavaScript", "CSS", "REST API", "Git">>,
    <<"Python", "Machine Learning", "TensorFlow", "PyTorch", "SQL", "AWS", "Docker">>,
    <<"Docker", "Kubernetes", "AWS", "Jenkins", "Terraform", "Linux", "Python">>,
    <<"React", "Node.js", "MongoDB", "REST API", "JavaScript", "Docker">>,
    <<"Python", "SQL", "Spark", "Kafka", "AWS", "Airflow", "ETL">>,
    <<"Java", "Spring", "Microservices", "Kubernetes", "REST API", "PostgreSQL">>,
    <<"AWS", "Azure", "Kubernetes", "Terraform", "Python", "Microservices">>
  >>

-----------------------------------------------------------------------------
(* Inputs the callers draw from *)

\* (keywords, location, limit) for search_jobs
SearchInputs ==
  { <<"python", "", 50>>,
    <<"python docker", "Remote", 1>>,
    <<"docker", "", 3>>,
    <<"", "ca", 3>>,
    <<" ", "Remote", 0>>,
    <<" JAVA ", "", 1>>,
    <<"nonexistent_xyz", "", 50>>,
    <<"python", "", -1>> }

\* jobs a caller passes to add_sample_job, each with the list it built for it
AddableJobs ==
  { [job |-> [id |-> "test_job",
              title |-> "Test Position",
              company |-> "Test Company",
              location |-> "Test Location",
              description |-> "Python testing"],
     requirements |-> <<>>],
    [job |-> [id |-> "job_001",
              title |-> "Python Tester",
              company |-> "Test Company",
              location |-> "Remote",
              description |-> "Test position",
              experience_required |-> 25],
     requirements |-> <<"Python", "python", "Test Skill">>] }

-----------------------------------------------------------------------------
(* JobScraper (src/src/scraper.py) *)

\* set(s.lower() for s in skills)
LowerSet(skills) == {Lower(Chars(skills[i])) : i \in 1..Len(skills)}

\* ' '.join(job['requirements'])
RECURSIVE JoinAll(_, _)
JoinAll(parts, sep) ==
  IF parts = <<>> THEN <<>>
  ELSE IF Len(parts) = 1 THEN Chars(parts[1])
  ELSE Chars(parts[1]) \o sep \o JoinAll(Tail(parts), sep)

JobText_cased(job, lists) ==
  Chars(job.title) \o <<" ">> \o Chars(job.description) \o <<" ">>
  \o JoinAll(lists[job.requirements], <<" ">>)

\* the searchable text search_jobs builds for one job
JobText(job, lists) ==
  Lower(Chars(job.title) \o <<" ">> \o Chars(job.description) \o <<" ">>
        \o JoinAll(lists[job.requirements], <<" ">>))

KeywordList(keywords) ==
  IF Chars(keywords) # <<>> THEN Split(Lower(Chars(keywords))) ELSE <<>>

\* the two tests of the search loop that `continue` past a job, negated
JobMatches(job, lists, keywords, location) ==
  LET keyword_list == KeywordList(keywords)
      job_text == JobText(job, lists)
  IN /\ keyword_list # <<>> =>
          \E k \in 1..Len(keyword_list) : Contains(keyword_list[k], job_text)
     /\ Chars(location) # <<>> =>
          Contains(Lower(Chars(location)), Lower(Chars(job.location)))

RECURSIVE MatchedJobs(_, _, _, _)
MatchedJobs(jobs, lists, keywords, location) ==
  IF jobs = <<>> THEN <<>>
  ELSE (IF JobMatches(Head(jobs), lists, keywords, location)
          THEN <<DictCopy(Head(jobs))>> ELSE <<>>)
       \o MatchedJobs(Tail(jobs), lists, keywords, location)

search_jobs(jobs, lists, keywords, location, limit) ==
  SliceTo(MatchedJobs(jobs, lists, keywords, location), limit)

RECURSIVE get_job_by_id(_, _)
get_job_by_id(jobs, job_id) ==
  IF jobs = <<>> THEN None
  ELSE IF Head(jobs).id = job_id THEN DictCopy(Head(jobs))
  ELSE get_job_by_id(Tail(jobs), job_id)

filter_by_experience(jobs, min_exp, max_exp) ==
  LET Keep(job) == /\ min_exp <= Get(job, "experience_required", 0)
                   /\ Get(job, "experience_required", 0) <= max_exp
  IN SelectSeq(jobs, Keep)

filter_by_skills(jobs, lists, required_skills) ==
  LET required_set == LowerSet(required_skills)
      Keep(job) == required_set \cap LowerSet(lists[job.requirements]) # {}
  IN SelectSeq(jobs, Keep)

get_all_jobs(jobs) == [i \in 1..Len(jobs) |-> DictCopy(jobs[i])]

get_job_count(jobs) == Len(jobs)

add_sample_job_upsert(jobs, job) ==
  IF \E i \in 1..Len(jobs) : jobs[i].id = job.id
    THEN [i \in 1..Len(jobs) |-> IF jobs[i].id = job.id THEN DictCopy(job) ELSE jobs[i]]
    ELSE Append(jobs, DictCopy(job))

\* the catalog after add_sample_job(job)
add_sample_job(jobs, job) == Append(jobs, DictCopy(job))

-----------------------------------------------------------------------------
(* The scraper's operations, and what a caller can do with a job it was given *)

\* the language model, and the state of the monitoring, generation and training
\* scripts, which no method of the scraper, the classifier or the agent assigns
ModelUnchanged ==
  UNCHANGED <<model, vocab, model_calls, metrics, clock, run, generation, trainer>>

AgentUnchanged ==
  /\ UNCHANGED <<sample_resume, workflow_results, returned, cleared>>
  /\ ModelUnchanged
  /\ UNCHANGED config

JobListOps == {"search_jobs", "get_all_jobs", "filter_by_experience", "filter_by_skills"}

SearchJobs ==
  \E inp \in SearchInputs :
    /\ ret' = search_jobs(sample_jobs, req_lists, inp[1], inp[2], inp[3])
    /\ last' = [op |-> "search_jobs", keywords |-> inp[1], location |-> inp[2],
                limit |-> inp[3]]
    /\ UNCHANGED <<sample_jobs, req_lists, adds, mutations>>
    /\ AgentUnchanged

GetJobById ==
  \E job_id \in {"job_001", "job_003", "test_job", "nonexistent_id"} :
    /\ ret' = get_job_by_id(sample_jobs, job_id)
    /\ last' = [op |-> "get_job_by_id", job_id |-> job_id]
    /\ UNCHANGED <<sample_jobs, req_lists, adds, mutations>>
    /\ AgentUnchanged

GetAllJobs ==
  /\ ret' = get_all_jobs(sample_jobs)
  /\ last' = [op |-> "get_all_jobs"]
  /\ UNCHANGED <<sample_jobs, req_lists, adds, mutations>>
  /\ AgentUnchanged

GetJobCount ==
  /\ ret' = get_job_count(sample_jobs)
  /\ last' = [op |-> "get_job_count"]
  /\ UNCHANGED <<sample_jobs, req_lists, adds, mutations>>
  /\ AgentUnchanged

\* the caller filters the list of jobs its last call gave it
FilterByExperience ==
  \E range \in { <<3, 5>>, <<20, 30>> } :
    /\ last.op \in JobListOps
    /\ ret' = filter_by_experience(ret, range[1], range[2])
    /\ last' = [op |-> "filter_by_experience", min_exp |-> range[1],
                max_exp |-> range[2]]
    /\ UNCHANGED <<sample_jobs, req_lists, adds, mutations>>
    /\ AgentUnchanged

FilterBySkills ==
  \E skills \in { <<"python">>, <<"NonexistentSkill123", "Test Skill">> } :
    /\ last.op \in JobListOps
    /\ ret' = filter_by_skills(ret, req_lists, skills)
    /\ last' = [op |-> "filter_by_skills", required_skills |-> skills]
    /\ UNCHANGED <<sample_jobs, req_lists, adds, mutations>>
    /\ AgentUnchanged

\* The caller builds a job dict with a requirements list of its own and passes it in.
AddSampleJob ==
  \E a \in AddableJobs :
    LET ref == Len(req_lists) + 1
        job == a.job @@ [requirements |-> ref]
    IN /\ adds < MaxAdds
       /\ req_lists' = Append(req_lists, a.requirements)
       /\ sample_jobs' = add_sample_job(sample_jobs, job)
       /\ adds' = adds + 1
       /\ ret' = None
       /\ last' = [op |-> "add_sample_job", job |-> job]
       /\ UNCHANGED mutations
       /\ AgentUnchanged

\* the operations after which the caller holds one job dict in ret
HoldsJob == last.op \in {"get_job_by_id", "caller_sets_title"} /\ ret # None

\* The caller assigns a field of the job dict it was given: job['title'] = ...
CallerSetsTitle ==
  /\ last.op = "get_job_by_id" /\ ret # None
  /\ ret' = [ret EXCEPT !.title = "Modified Title"]
  /\ last' = [op |-> "caller_sets_title"]
  /\ UNCHANGED <<sample_jobs, req_lists, adds, mutations>>
  /\ AgentUnchanged

\* The caller assigns a field of the job dict it has just passed to add_sample_job
CallerSetsTitleOfAdded ==
  /\ last.op = "add_sample_job"
  /\ last' = [op |-> "caller_sets_title_of_added",
              job |-> [last.job EXCEPT !.title = "Modified Title"]]
  /\ UNCHANGED <<ret, sample_jobs, req_lists, adds, mutations>>
  /\ AgentUnchanged

\* The caller changes the list the job dict it was given refers to:
\* job['requirements'].append(...)
CallerAppendsRequirement ==
  /\ HoldsJob
  /\ mutations < MaxMutations
  /\ req_lists' = [req_lists EXCEPT ![ret.requirements] = Append(@, "Test Skill")]
  /\ mutations' = mutations + 1
  /\ ret' = ret
  /\ last' = [op |-> "caller_appends_requirement"]
  /\ UNCHANGED <<sample_jobs, adds>>
  /\ AgentUnchanged

-----------------------------------------------------------------------------
(* Number formatting: f"{x:.Nf}" of a non-negative float *)

Pow10(k) == IF k = 0 THEN 1 ELSE IF k = 1 THEN 10 ELSE IF k = 2 THEN 100 ELSE 1000

Digit == <<"0", "1", "2", "3", "4", "5", "6", "7", "8", "9">>

RECURSIVE IntChars(_)
IntChars(n) == IF n < 10 THEN <<Digit[n + 1]>>
               ELSE Append(IntChars(n \div 10), Digit[(n % 10) + 1])

\* n/d rounded to the nearest integer, a tie going to the even one
RoundHalfEven(n, d) ==
  LET q == n \div d
      r2 == 2 * (n % d)
  IN IF r2 < d THEN q
     ELSE IF r2 > d THEN q + 1
     ELSE IF q % 2 = 0 THEN q ELSE q + 1

\* the last `places` digits of q, zero-padded on the left
RECURSIVE FracDigits(_, _)
FracDigits(q, places) ==
  IF places = 0 THEN <<>>
  ELSE Append(FracDigits(q \div 10, places - 1), Digit[(q % 10) + 1])

FormatFixed(x, places) ==
  LET q == RoundHalfEven(x[1] * Pow10(places), x[2])
  IN IntChars(q \div Pow10(places)) \o <<".">> \o FracDigits(q, places)

\* f"{x * 100:.1f}%"
FormatPercent(x) == FormatFixed(Frac(x[1] * 100, x[2]), 1) \o <<"%">>

\* list.sort(key=..., reverse=True) is stable: equal keys keep their order.
\* Given the keys of a list, as fractions, the indices of the list in sorted order.
SortedIndicesDesc(keys) ==
  LET n == Len(keys)
      Rank(i) ==
        Cardinality({j \in 1..n : FracLt(keys[i], keys[j])})
        + Cardinality({j \in 1..(i - 1) : keys[j] = keys[i]})
        + 1
  IN [p \in 1..n |-> CHOOSE i \in 1..n : Rank(i) = p]

-----------------------------------------------------------------------------
(* JobRelevanceClassifier (src/src/classifier.py) *)

\* classify_job with the matches divided by the length of the requirements list
classify_job_per_listed(job, lists, resume_skills) ==
  LET job_skills == Requirements(job, lists)
      matching_skills == Cardinality(LowerSet(resume_skills) \cap LowerSet(job_skills))
  IN IF job_skills = <<>> THEN Frac(1, 2)
     ELSE Frac(matching_skills, Len(job_skills))

classify_job(job, lists, resume_skills) ==
  LET job_skills == Requirements(job, lists)
      resume_set == LowerSet(resume_skills)
      job_set == LowerSet(job_skills)
      matching_skills == Cardinality(resume_set \cap job_set)
      total_required == Cardinality(job_set)
      skill_score == IF total_required > 0
                       THEN Frac(matching_skills, total_required) ELSE Zero
  IN IF job_skills = <<>> THEN Frac(1, 2)
     ELSE IF FracGeq(One, skill_score) THEN skill_score ELSE One

_get_recommendation(score) ==
  IF FracGeq(score, Frac(8, 10)) THEN "Highly Recommended - Strong match"
  ELSE IF FracGeq(score, Frac(6, 10)) THEN "Recommended - Good match"
  ELSE IF FracGeq(score, Frac(4, 10)) THEN "Consider - Moderate match"
  ELSE IF FracGeq(score, Frac(2, 10)) THEN "Possible - Weak match"
  ELSE "Not Recommended - Poor match"

\* list(a_set) has no order the program fixes: the three skill lists are kept as sets
get_match_details(job, lists, resume_skills) ==
  LET job_skills == Requirements(job, lists)
      resume_set == LowerSet(resume_skills)
      job_set == LowerSet(job_skills)
      matching == resume_set \cap job_set
      missing == job_set \ resume_set
      extra == resume_set \ job_set
      score == IF job_set # {} THEN Frac(Cardinality(matching), Cardinality(job_set))
               ELSE Zero
  IN [relevance_score |-> score,
      matching_skills |-> matching,
      missing_skills |-> missing,
      extra_skills |-> extra,
      match_percentage |-> FormatPercent(score),
      recommendation |-> _get_recommendation(score)]

-----------------------------------------------------------------------------
(* ResumeCustomizer (src/src/customizer.py) *)

InitialResume ==
  [name |-> "Alex Chen",
   email |-> "alex.chen@email.com",
   phone |-> "+1-555-0123",
   location |-> "San Francisco, CA",
   experience |-> 6,
   skills |-> <<"Python", "Java", "Docker", "Kubernetes", "AWS", "Machine Learning",
              "PostgreSQL", "REST API", "Git">>,
   summary |->
     "Experienced software engineer with 6+ years building scalable distributed systems and machine learning applications",
   experience_details |->
     <<"Led team of 8 engineers developing microservices platform serving 10M+ users",
       "Architected and deployed Kubernetes infrastructure reducing deployment time by 70%",
       "Implemented ML pipeline processing 1B+ events daily with 99.9% uptime",
       "Reduced API latency by 60% through query optimization and caching strategies">>,
   education |-> "BS Computer Science, Stanford University",
   certifications |-> <<"AWS Certified Solutions Architect", "Kubernetes Administrator">>]

get_sample_resume(resume) == DictCopy(resume)

\* the matching skills under the names the job gives them
_get_matching_skills_job_names(resume_skills, job_skills) ==
  LET matching == LowerSet(resume_skills) \cap LowerSet(job_skills)
      Matches(s) == Lower(Chars(s)) \in matching
  IN SelectSeq(job_skills, Matches)

_get_matching_skills(resume_skills, job_skills) ==
  LET matching == LowerSet(resume_skills) \cap LowerSet(job_skills)
      Matches(s) == Lower(Chars(s)) \in matching
  IN SelectSeq(resume_skills, Matches)

\* The summary is a fixed text with two holes; the model keeps what fills them.
_generate_custom_summary(resume, job_title, company, matching_skills) ==
  [template |-> "Experienced software engineer with {experience_years}+ years of expertise specializing in {skills_str}. ...",
   experience_years |-> Get(resume, "experience", 0),
   skills_str |-> SliceTo(matching_skills, 5)]

_select_relevant_experience(experience_details, job_skills) ==
  LET job_skills_lower == LowerSet(job_skills)
      Score(exp) ==
        LET exp_lower == Lower(Chars(exp))
        IN Cardinality({skill \in job_skills_lower : Contains(skill, exp_lower)})
      scored_experiences ==
        [i \in 1..Len(experience_details) |->
           <<Score(experience_details[i]), experience_details[i]>>]
      order == SortedIndicesDesc([i \in 1..Len(scored_experiences) |->
                                   Frac(scored_experiences[i][1], 1)])
      top == SliceTo([p \in 1..Len(order) |-> scored_experiences[order[p]]], 4)
  IN [i \in 1..Len(top) |-> top[i][2]]

customize_for_job(resume, job, lists) ==
  LET job_title == Get(job, "title", "")
      job_skills == Requirements(job, lists)
      company == Get(job, "company", "")
      matching_skills == _get_matching_skills(resume.skills, job_skills)
      NotMatching(s) == s \notin Range(matching_skills)
      prioritized_skills == matching_skills \o SelectSeq(resume.skills, NotMatching)
  IN [name |-> resume.name,
      email |-> resume.email,
      phone |-> resume.phone,
      location |-> resume.location,
      experience |-> resume.experience,
      skills |-> SliceTo(prioritized_skills, 10),
      summary |-> _generate_custom_summary(resume, job_title, company, matching_skills),
      experience_details |->
        _select_relevant_experience(resume.experience_details, job_skills),
      education |-> resume.education,
      certifications |-> resume.certifications,
      customized_for |->
        [job_title |-> job_title,
         company |-> company,
         matching_skills |-> matching_skills,
         match_score |-> IF job_skills # <<>>
                           THEN Frac(Len(matching_skills), Len(job_skills)) ELSE Zero]]

\* The cover letter is a fixed text with holes; the model keeps what fills them.
generate_cover_letter(job, resume) ==
  [template |-> "Dear Hiring Manager, ... {job_title} ... {company} ... {experience} ... {skills} ... {summary} ... {name}",
   job_title |-> Get(job, "title", "Position"),
   company |-> Get(job, "company", "Company"),
   experience |-> Get(resume, "experience", 0),
   skills |-> SliceTo(Get(Get(resume, "customized_for", [matching_skills |-> <<>>]),
                          "matching_skills", <<>>), 3),
   summary |-> Get(resume, "summary", ""),
   name |-> Get(resume, "name", "Applicant")]

-----------------------------------------------------------------------------
(* JobApplicationAgent (src/src/agent.py) *)

\* (keywords, location, num_jobs, min_relevance) for run_workflow
WorkflowInputs ==
  { <<"", "", 10, Frac(1, 2)>>,
    <<"python docker", "Remote", 5, Frac(9, 10)>>,
    <<"nonexistent_xyz", "", 5, Frac(3, 10)>> }

\* the min_relevance values two runs of one search are compared at
Thresholds == {Frac(1, 10), Frac(1, 2), Frac(6, 10), Frac(9, 10)}

\* sum of a list of floats
RECURSIVE FracSum(_)
FracSum(xs) == IF xs = <<>> THEN Zero ELSE FracAdd(Head(xs), FracSum(Tail(xs)))

\* np.mean of a non-empty list of floats
Mean(xs) == LET s == FracSum(xs) IN Frac(s[1], s[2] * Len(xs))

MeetsMinimum_strict(relevance_score, min_relevance) ==
  FracLt(min_relevance, relevance_score)

MeetsMinimum_flipped(relevance_score, min_relevance) ==
  FracGeq(min_relevance, relevance_score)

\* the test `relevance_score >= min_relevance` of the workflow loop
MeetsMinimum(relevance_score, min_relevance) == FracGeq(relevance_score, min_relevance)

\* the application record the loop builds for one job that meets the minimum
Application(job, lists, resume, relevance_score) ==
  LET customized_resume == customize_for_job(resume, job, lists)
      match_details == get_match_details(job, lists, resume.skills)
  IN [job |-> job,
      relevance_score |-> relevance_score,
      match_details |-> match_details,
      customized_resume |-> customized_resume,
      cover_letter |-> generate_cover_letter(job, customized_resume),
      application_status |-> "Ready to Apply",
      recommended_action |-> match_details.recommendation]

\* the loop over the jobs found: one application per job that meets the minimum
RECURSIVE ClassifyAndFilter(_, _, _, _)
ClassifyAndFilter(jobs, lists, resume, min_relevance) ==
  IF jobs = <<>> THEN <<>>
  ELSE LET job == Head(jobs)
           relevance_score == classify_job(job, lists, resume.skills)
       IN (IF MeetsMinimum(relevance_score, min_relevance)
             THEN <<Application(job, lists, resume, relevance_score)>>
             ELSE <<>>)
          \o ClassifyAndFilter(Tail(jobs), lists, resume, min_relevance)

RankApplications_unsorted(applications) == applications

\* applications.sort(key=lambda x: x['relevance_score'], reverse=True)
RankApplications(applications) ==
  LET order == SortedIndicesDesc([i \in 1..Len(applications) |->
                                   applications[i].relevance_score])
  IN [p \in 1..Len(order) |-> applications[order[p]]]

Scores(applications) ==
  [i \in 1..Len(applications) |-> applications[i].relevance_score]

FracMax(xs) == CHOOSE x \in Range(xs) : \A y \in Range(xs) : FracGeq(x, y)
FracMin(xs) == CHOOSE x \in Range(xs) : \A y \in Range(xs) : FracGeq(y, x)

\* a moderate band that starts at 0.6
_generate_summary_with_gap(jobs, applications) ==
  LET scores == Scores(applications)
      Highly(s) == FracGeq(s, Frac(8, 10))
      Moderately(s) == FracGeq(s, Frac(6, 10)) /\ FracLt(s, Frac(8, 10))
      Weakly(s) == FracLt(s, Frac(5, 10))
  IN IF applications = <<>>
       THEN [message |-> "No relevant jobs found",
             recommendation |-> "Try broadening search criteria"]
       ELSE [total_searched |-> Len(jobs),
             relevant_found |-> Len(applications),
             pass_rate |-> FormatPercent(Frac(Len(applications), Len(jobs))),
             avg_score |-> FormatFixed(Mean(scores), 3),
             max_score |-> FormatFixed(FracMax(scores), 3),
             min_score |-> FormatFixed(FracMin(scores), 3),
             highly_relevant |->
               Cardinality({i \in 1..Len(scores) : Highly(scores[i])}),
             moderately_relevant |->
               Cardinality({i \in 1..Len(scores) : Moderately(scores[i])}),
             weakly_relevant |->
               Cardinality({i \in 1..Len(scores) : Weakly(scores[i])})]

_generate_summary(jobs, applications) ==
  LET scores == Scores(applications)
      Highly(s) == FracGeq(s, Frac(8, 10))
      Moderately(s) == FracGeq(s, Frac(5, 10)) /\ FracLt(s, Frac(8, 10))
      Weakly(s) == FracLt(s, Frac(5, 10))
  IN IF applications = <<>>
       THEN [message |-> "No relevant jobs found",
             recommendation |-> "Try broadening search criteria"]
       ELSE [total_searched |-> Len(jobs),
             relevant_found |-> Len(applications),
             pass_rate |-> FormatPercent(Frac(Len(applications), Len(jobs))),
             avg_score |-> FormatFixed(Mean(scores), 3),
             max_score |-> FormatFixed(FracMax(scores), 3),
             min_score |-> FormatFixed(FracMin(scores), 3),
             highly_relevant |->
               Cardinality({i \in 1..Len(scores) : Highly(scores[i])}),
             moderately_relevant |->
               Cardinality({i \in 1..Len(scores) : Moderately(scores[i])}),
             weakly_relevant |->
               Cardinality({i \in 1..Len(scores) : Weakly(scores[i])})]

NoJobsResult_without_applications ==
  [total_jobs_found |-> 0,
   relevant_jobs |-> 0,
   message |-> "No jobs found matching criteria"]

\* the dictionary run_workflow returns when the search found no job
NoJobsResult ==
  [total_jobs_found |-> 0,
   relevant_jobs |-> 0,
   applications |-> <<>>,
   message |-> "No jobs found matching criteria"]

\* the dictionary run_workflow builds when the search found the jobs `jobs`
WorkflowResult(jobs, lists, resume, min_relevance) ==
  LET applications ==
        RankApplications(ClassifyAndFilter(jobs, lists, resume, min_relevance))
  IN [total_jobs_found |-> Len(jobs),
      relevant_jobs |-> Len(applications),
      pass_rate |-> IF jobs # <<>> THEN Frac(Len(applications), Len(jobs)) ELSE Zero,
      avg_relevance_score |-> IF applications # <<>> THEN Mean(Scores(applications))
                              ELSE Zero,
      applications |-> applications,
      summary |-> _generate_summary(jobs, applications)]

\* what run_workflow returns
run_workflow(catalog, lists, resume, keywords, location, num_jobs, min_relevance) ==
  LET jobs == search_jobs(catalog, lists, keywords, location, num_jobs)
  IN IF jobs = <<>> THEN NoJobsResult
     ELSE WorkflowResult(jobs, lists, get_sample_resume(resume), min_relevance)

\* self.workflow_results after a run_workflow call that found `jobs` and built `result`
StoreResult(history, jobs, result) ==
  IF jobs = <<>> THEN history ELSE Append(history, result)

get_top_matches(history, n) ==
  IF history = <<>> THEN <<>>
  ELSE SliceTo(Get(history[Len(history)], "applications", <<>>), n)

\* list.copy() of the history: a new list of the same dictionaries
get_workflow_history(history) == history

-----------------------------------------------------------------------------
(* The agent's operations *)

ScraperUnchanged ==
  /\ UNCHANGED <<sample_jobs, req_lists, adds, mutations>>
  /\ ModelUnchanged
  /\ UNCHANGED config

\* a clear_history that keeps the latest result
clear_history_keeps_last(history) ==
  IF history = <<>> THEN <<>> ELSE <<history[Len(history)]>>

clear_history(history) == <<>>

Call_run_workflow(inp) ==
    LET jobs == search_jobs(sample_jobs, req_lists, inp[1], inp[2], inp[3])
        result == run_workflow(sample_jobs, req_lists, sample_resume,
                               inp[1], inp[2], inp[3], inp[4])
    IN /\ Len(returned) < MaxRuns
       /\ workflow_results' = StoreResult(workflow_results, jobs, result)
       /\ ret' = result
       /\ returned' = Append(returned, result)
       /\ last' = [op |-> "run_workflow", keywords |-> inp[1], location |-> inp[2],
                   num_jobs |-> inp[3], min_relevance |-> inp[4]]
       /\ cleared' = FALSE
       /\ UNCHANGED sample_resume
       /\ ScraperUnchanged

RunWorkflow == \E inp \in WorkflowInputs : Call_run_workflow(inp)

GetTopMatches ==
  \E n \in {0, 2, 5} :
    /\ ret' = get_top_matches(workflow_results, n)
    /\ last' = [op |-> "get_top_matches", n |-> n]
    /\ UNCHANGED <<sample_resume, workflow_results, returned, cleared>>
    /\ ScraperUnchanged

GetWorkflowHistory ==
  /\ ret' = get_workflow_history(workflow_results)
  /\ last' = [op |-> "get_workflow_history"]
  /\ UNCHANGED <<sample_resume, workflow_results, returned, cleared>>
  /\ ScraperUnchanged

ClearHistory ==
  /\ workflow_results' = clear_history(workflow_results)
  /\ returned' = <<>>
  /\ cleared' = TRUE
  /\ ret' = None
  /\ last' = [op |-> "clear_history"]
  /\ UNCHANGED sample_resume
  /\ ScraperUnchanged

-----------------------------------------------------------------------------
(* The language model and vocabulary handed to ResumeCustomizer *)

\* MAYINIModel(vocab_size=5000, hidden_dim=256, num_heads=8, num_layers=4)
InterfaceModel ==
  [vocab_size |-> 5000, hidden_dim |-> 256, num_heads |-> 8, num_layers |-> 4]

\* MAYINIVocabulary(vocab_size=5000)
InterfaceVocabulary == [vocab_size |-> 5000]

\* the models ResumeCustomizer is constructed with: the interface's, and
\* MAYINIModel(vocab_size=100, hidden_dim=32, num_heads=2, num_layers=1)
Models ==
  {InterfaceModel,
   [vocab_size |-> 100, hidden_dim |-> 32, num_heads |-> 2, num_layers |-> 1]}

\* the vocabularies it is constructed with: the interface's, and MAYINIVocabulary(vocab_size=100)
Vocabularies == {InterfaceVocabulary, [vocab_size |-> 100]}

-----------------------------------------------------------------------------
(* Configuration (src/src/config.py) *)

\* the attributes Configuration.__init__ assigns; cuda_available is what
\* torch.cuda.is_available() answers, and no API key is set in the environment
Configuration(cuda_available) ==
  [device |-> IF cuda_available THEN "cuda" ELSE "cpu",
   model_config |->
     [vocab_size |-> 5000, hidden_dim |-> 256, num_heads |-> 8, num_layers |-> 4,
      max_seq_length |-> 512, dropout_rate |-> Frac(1, 10), embedding_dim |-> 256,
      ff_dim |-> 1024],
   training_config |->
     [learning_rate |-> Frac(1, 10000), batch_size |-> 32, epochs |-> 10,
      weight_decay |-> Frac(1, 100), warmup_steps |-> 500, gradient_clip |-> One],
   scraper_config |->
     [timeout |-> 10, max_jobs |-> 50,
      platforms |-> <<"linkedin", "indeed", "glassdoor", "monster">>,
      retry_attempts |-> 3, delay_between_requests |-> One],
   customizer_config |->
     [max_resume_length |-> 2000, skill_matching_threshold |-> Frac(1, 2),
      experience_weight |-> Frac(3, 10), skills_weight |-> Frac(1, 2),
      education_weight |-> Frac(2, 10)],
   classifier_config |->
     [embedding_dim |-> 300, hidden_dim |-> 128, num_classes |-> 2,
      relevance_threshold |-> Frac(1, 2), dropout_rate |-> Frac(1, 10)],
   agent_config |->
     [max_applications_per_run |-> 10, min_relevance_score |-> Frac(3, 10),
      auto_apply |-> FALSE, save_results |-> TRUE],
   logging_config |->
     [log_level |-> "INFO", log_file |-> "logs/app.log",
      log_format |-> "%(asctime)s - %(name)s - %(levelname)s - %(message)s",
      max_log_size |-> "10MB", backup_count |-> 5],
   paths |->
     [models_dir |-> "models/", data_dir |-> "data/", logs_dir |-> "logs/",
      output_dir |-> "output/", cache_dir |-> "cache/"],
   api_config |->
     [linkedin_api_key |-> "", indeed_api_key |-> "", openai_api_key |-> "",
      rate_limit_per_minute |-> 60],
   features |->
     [use_mayini_model |-> TRUE, enable_caching |-> TRUE, use_gpu |-> cuda_available,
      enable_logging |-> TRUE, save_artifacts |-> TRUE]]


-----------------------------------------------------------------------------
(* Specifications *)

\* the objects as their constructors leave them, the constructors' arguments apart
Constructed ==
  /\ sample_jobs = InitialJobs
  /\ req_lists = InitialLists
  /\ sample_resume = InitialResume
  /\ workflow_results = <<>>
  /\ last = [op |-> "__init__"]
  /\ ret = None
  /\ returned = <<>>
  /\ adds = 0
  /\ mutations = 0
  /\ cleared = FALSE
  /\ model_calls = 0
  /\ metrics = <<>>
  /\ clock = 0
  /\ run = [pc |-> "idle"]
  /\ generation = [pc |-> "idle"]
  /\ trainer = [pc |-> "idle"]

Init ==
  /\ Constructed
  /\ model = InterfaceModel
  /\ vocab = InterfaceVocabulary
  /\ config = Configuration(FALSE)

\* the scraper used on its own, by a caller that may change the jobs it is given
ScraperNext ==
  \/ SearchJobs
  \/ GetJobById
  \/ GetAllJobs
  \/ GetJobCount
  \/ FilterByExperience
  \/ FilterBySkills
  \/ AddSampleJob
  \/ CallerSetsTitle
  \/ CallerSetsTitleOfAdded
  \/ CallerAppendsRequirement

ScraperSpec == Init /\ [][ScraperNext]_vars

\* the agent over a catalog that add_sample_job may extend
Next ==
  \/ RunWorkflow
  \/ GetTopMatches
  \/ GetWorkflowHistory
  \/ ClearHistory
  \/ AddSampleJob

Spec == Init /\ [][Next]_vars

-----------------------------------------------------------------------------
(* The web form's search_and_apply (src/src/interface.py) *)

\* The report is built from these keys of the result; a missing key raises KeyError,
\* which the function catches and turns into an error message.
search_and_apply_output(results) ==
  IF {"total_jobs_found", "relevant_jobs", "pass_rate", "avg_relevance_score",
      "applications"} \subseteq DOMAIN results
    THEN "JOB SEARCH RESULTS"
    ELSE "Error"

-----------------------------------------------------------------------------
(* Properties of the workflow history (Spec) *)

NonIncreasing(applications) ==
  \A i \in 1..(Len(applications) - 1) :
    FracGeq(applications[i].relevance_score, applications[i + 1].relevance_score)

\* C1: after any sequence of run_workflow calls with no clear_history in between,
\* get_workflow_history returns exactly one entry per call, in call order, and
\* every result a call returned is an entry of it.
C1_HistoryHoldsEveryRun ==
  get_workflow_history(workflow_results) = returned

\* C2: get_top_matches(n) returns the first n applications of the result of the
\* most recent run_workflow call, whatever that call found, and the empty list
\* when no workflow has run.
C2_TopMatchesOfLastRun ==
  last.op = "get_top_matches" =>
    ret = IF returned = <<>> THEN <<>>
          ELSE SliceTo(returned[Len(returned)].applications, last.n)

\* C3: after any run_workflow call, get_top_matches(n) with n >= 0 returns at
\* most n applications in non-increasing relevance_score order, and the
\* applications of every run_workflow result are in non-increasing order.
C3_TopMatchesOrdered ==
  /\ (last.op = "get_top_matches" /\ last.n >= 0) =>
       (Len(ret) <= last.n /\ NonIncreasing(ret))
  /\ \A i \in 1..Len(returned) : NonIncreasing(returned[i].applications)
  /\ \A i \in 1..Len(workflow_results) : NonIncreasing(workflow_results[i].applications)

\* a run gave applications with different scores and the caller took its top two
C3_Witness ==
  /\ last.op = "get_top_matches"
  /\ Len(ret) = 2
  /\ FracLt(ret[2].relevance_score, ret[1].relevance_score)
  /\ Len(workflow_results[Len(workflow_results)].applications) > 2

\* C4: every dictionary run_workflow returns has the keys total_jobs_found,
\* relevant_jobs, applications and pass_rate, with 0 <= pass_rate <= 1 and
\* relevant_jobs = number of applications <= total_jobs_found, so that
\* search_and_apply can format it into a results report.
C4_ResultWellFormed ==
  last.op = "run_workflow" =>
    /\ {"total_jobs_found", "relevant_jobs", "applications", "pass_rate"}
         \subseteq DOMAIN ret
    /\ FracGeq(ret.pass_rate, Zero) /\ FracGeq(One, ret.pass_rate)
    /\ ret.relevant_jobs = Len(ret.applications)
    /\ ret.relevant_jobs <= ret.total_jobs_found
    /\ search_and_apply_output(ret) = "JOB SEARCH RESULTS"

\* the jobs the search of the last run_workflow call found
LastRunJobs ==
  search_jobs(sample_jobs, req_lists, last.keywords, last.location, last.num_jobs)

\* C5: when the search matches no job, run_workflow returns total_jobs_found = 0,
\* relevant_jobs = 0 and an empty applications list.
C5_NoJobsFound ==
  (last.op = "run_workflow" /\ LastRunJobs = <<>>) =>
    /\ {"total_jobs_found", "relevant_jobs", "applications"} \subseteq DOMAIN ret
    /\ ret.total_jobs_found = 0
    /\ ret.relevant_jobs = 0
    /\ ret.applications = <<>>

C5_Witness ==
  /\ last.op = "run_workflow"
  /\ LastRunJobs = <<>>
  /\ workflow_results # <<>>

Count(seq, x) == Cardinality({i \in 1..Len(seq) : seq[i] = x})

\* C6: the applications of a run_workflow result are exactly the jobs the search
\* returned whose classify_job score against the sample resume's skills is
\* >= min_relevance, each job once, with every relevance_score in [0, 1].
C6_ApplicationsAreTheRelevantJobs ==
  last.op = "run_workflow" =>
    LET jobs == LastRunJobs
        Relevant(job) ==
          FracGeq(classify_job(job, req_lists, sample_resume.skills), last.min_relevance)
        relevant == SelectSeq(jobs, Relevant)
        applied == [i \in 1..Len(ret.applications) |-> ret.applications[i].job]
    IN /\ Len(applied) = Len(relevant)
       /\ \A j \in Range(jobs) : Count(applied, j) = Count(relevant, j)
       /\ Range(applied) \subseteq Range(jobs)
       /\ \A i \in 1..Len(ret.applications) :
            LET a == ret.applications[i]
            IN /\ a.relevance_score = classify_job(a.job, req_lists, sample_resume.skills)
               /\ FracGeq(a.relevance_score, Zero)
               /\ FracGeq(One, a.relevance_score)

\* a run kept some jobs, dropped others, and kept one whose score is the minimum asked
C6_Witness ==
  /\ last.op = "run_workflow"
  /\ ret.total_jobs_found > ret.relevant_jobs
  /\ \E i \in 1..Len(ret.applications) :
       ret.applications[i].relevance_score = last.min_relevance

\* the jobs applied to in the result of the last run's search at threshold t
AppliedAt(t) ==
  LET r == run_workflow(sample_jobs, req_lists, sample_resume, last.keywords,
                        last.location, last.num_jobs, t)
  IN {r.applications[i].job : i \in 1..Len(r.applications)}

\* C7: for a fixed catalog, keywords, location and num_jobs, if t1 <= t2 then the
\* jobs applied to with min_relevance = t2 are among those with min_relevance = t1,
\* so relevant_jobs at t1 >= relevant_jobs at t2.
C7_HigherThresholdFewerJobs ==
  last.op = "run_workflow" =>
    LET here == {ret.applications[i].job : i \in 1..Len(ret.applications)}
    IN \A t \in Thresholds :
         LET there == AppliedAt(t)
         IN /\ FracGeq(t, last.min_relevance) =>
                 /\ there \subseteq here
                 /\ Cardinality(there) <= ret.relevant_jobs
            /\ FracGeq(last.min_relevance, t) =>
                 /\ here \subseteq there
                 /\ ret.relevant_jobs <= Cardinality(there)

\* a run found relevant jobs of which a higher threshold would drop some, not all
C7_Witness ==
  /\ last.op = "run_workflow"
  /\ \E t \in Thresholds :
       /\ FracLt(last.min_relevance, t)
       /\ AppliedAt(t) # {}
       /\ Cardinality(AppliedAt(t)) < ret.relevant_jobs

-----------------------------------------------------------------------------
(* Properties of the scraper (ScraperSpec) *)

\* the whitespace-separated words of a string: its maximal runs of other characters
Words(s) ==
  { SubSeq(s, b[1], b[2]) :
      b \in { c \in (1..Len(s)) \X (1..Len(s)) :
                /\ c[1] <= c[2]
                /\ \A k \in c[1]..c[2] : s[k] \notin Whitespace
                /\ c[1] = 1 \/ s[c[1] - 1] \in Whitespace
                /\ c[2] = Len(s) \/ s[c[2] + 1] \in Whitespace } }

\* the job is one a search for (keywords, location) is to return
Wanted(job, lists, keywords, location) ==
  LET words == Words(Chars(keywords))
      fields == {Chars(job.title), Chars(job.description)}
                \cup {Chars(lists[job.requirements][i]) :
                        i \in 1..Len(lists[job.requirements])}
  IN /\ \/ words = {}
        \/ \E w \in words : \E f \in fields : Contains(Lower(w), Lower(f))
     /\ \/ Chars(location) = <<>>
        \/ Contains(Lower(Chars(location)), Lower(Chars(job.location)))

CatalogView ==
  [i \in 1..Len(sample_jobs) |->
     [job |-> sample_jobs[i], requirements |-> req_lists[sample_jobs[i].requirements]]]

CallerOps == {"caller_sets_title", "caller_appends_requirement"}

\* C9: jobs returned by get_job_by_id, get_all_jobs and search_jobs are copies: no
\* change a caller makes to a returned job, to one of its fields or inside its
\* requirements list, changes what a later call returns.
C9_ReturnedJobsAreCopies ==
  [][last'.op \in CallerOps => CatalogView' = CatalogView]_vars

DistinctIds(jobs) ==
  \A i, j \in 1..Len(jobs) : i # j => jobs[i].id # jobs[j].id

\* C10: the catalog starts with eight jobs with pairwise distinct ids, and
\* get_job_count is always eight plus the number of add_sample_job calls made.
C10_CountIsEightPlusAdds ==
  /\ Len(InitialJobs) = 8
  /\ DistinctIds(InitialJobs)
  /\ get_job_count(sample_jobs) = 8 + adds
  /\ last.op = "get_job_count" => ret = 8 + adds

\* the count was asked for after a job with an id the catalog already had was added
C10_Witness ==
  /\ last.op = "get_job_count"
  /\ adds > 0
  /\ ret = 8 + adds
  /\ ~DistinctIds(sample_jobs)

-----------------------------------------------------------------------------
(* The classifier used on its own (src/tests/test_classifier.py) *)

\* the requirements lists of the jobs callers classify
ClassifierLists ==
  << <<"Python", "Docker", "AWS">>,
     <<"Python", "Docker">>,
     <<"Java", "Spring">>,
     <<"Python", "Docker", "Kubernetes">>,
     <<"Python">>,
     <<"Java">>,
     <<>>,
     <<"Python", "python", "Test Skill">>,
     <<"PYTHON", "docker">> >>

ClassifierJobs ==
  {[requirements |-> i] : i \in 1..Len(ClassifierLists)}
    \cup {[title |-> "Python Developer", requirements |-> 1],
          [title |-> "Python Developer"]}

ResumeSkillLists ==
  { <<"Python", "Docker", "Kubernetes">>,
    <<"Python", "Docker">>,
    <<"Python", "Django">>,
    <<"Python", "Kubernetes">>,
    <<"python", "DOCKER">>,
    <<>>,
    InitialResume.skills }

\* what a call of a pure method leaves alone
NothingStored ==
  /\ UNCHANGED <<sample_jobs, req_lists, sample_resume, workflow_results, returned,
                 adds, mutations, cleared>>
  /\ ModelUnchanged
  /\ UNCHANGED config

ClassifyJob ==
  \E job \in ClassifierJobs, resume_skills \in ResumeSkillLists :
    /\ ret' = classify_job(job, ClassifierLists, resume_skills)
    /\ last' = [op |-> "classify_job", job |-> job, resume_skills |-> resume_skills]
    /\ NothingStored

\* the lowercased strings of a list of skills
Lowered(skills) == {Lower(Chars(s)) : s \in Range(skills)}

\* C11: classify_job returns |R \cap J| / |J| for the sets J, R of lowercased
\* requirements and resume skills: a score in [0, 1] that is 1 when every
\* requirement is a resume skill, 0 when none is, strictly between otherwise,
\* and 1/2 when the job has no requirements.
C11_ClassifyJobIsOverlapRatio ==
  last.op = "classify_job" =>
    LET reqs == IF "requirements" \in DOMAIN last.job
                  THEN ClassifierLists[last.job.requirements] ELSE <<>>
        J == Lowered(reqs)
        R == Lowered(last.resume_skills)
    IN /\ FracGeq(ret, Zero)
       /\ FracGeq(One, ret)
       /\ reqs = <<>> => ret = Frac(1, 2)
       /\ reqs # <<>> =>
            /\ ret = Frac(Cardinality(R \cap J), Cardinality(J))
            /\ J \subseteq R => ret = One
            /\ J \cap R = {} => ret = Zero
            /\ (~(J \subseteq R) /\ J \cap R # {}) =>
                 FracLt(Zero, ret) /\ FracLt(ret, One)

\* a partial match against a list that names one skill twice
C11_Witness ==
  /\ last.op = "classify_job"
  /\ "requirements" \in DOMAIN last.job
  /\ Len(ClassifierLists[last.job.requirements])
       > Cardinality(Lowered(ClassifierLists[last.job.requirements]))
  /\ FracLt(Zero, ret)
  /\ FracLt(ret, One)

GetMatchDetails ==
  \E job \in ClassifierJobs, resume_skills \in ResumeSkillLists :
    /\ ret' = get_match_details(job, ClassifierLists, resume_skills)
    /\ last' = [op |-> "get_match_details", job |-> job,
                resume_skills |-> resume_skills]
    /\ NothingStored

\* C12: get_match_details reports skills under the names the job's requirements
\* give them: matching_skills holds each requirement the resume has (compared
\* case-insensitively), missing_skills each requirement it lacks; the two are
\* disjoint and together cover every requirement.
C12_MatchDetailsNameRequirements ==
  last.op = "get_match_details" =>
    LET reqs == IF "requirements" \in DOMAIN last.job
                  THEN ClassifierLists[last.job.requirements] ELSE <<>>
        R == Lowered(last.resume_skills)
        Has(r) == Lower(Chars(r)) \in R
    IN /\ ret.matching_skills = {Chars(r) : r \in {x \in Range(reqs) : Has(x)}}
       /\ ret.missing_skills = {Chars(r) : r \in {x \in Range(reqs) : ~Has(x)}}
       /\ ret.matching_skills \cap ret.missing_skills = {}
       /\ ret.matching_skills \cup ret.missing_skills = {Chars(r) : r \in Range(reqs)}

\* lists of jobs callers filter and rank
ClassifierJobLists ==
  { <<[title |-> "Job 1", requirements |-> 5],
      [title |-> "Job 2", requirements |-> 6],
      [title |-> "Job 3", requirements |-> 2]>>,
    <<[requirements |-> 6], [requirements |-> 2], [requirements |-> 5]>>,
    <<[requirements |-> 8], [requirements |-> 7], [title |-> "Python Developer"],
      [requirements |-> 1]>>,
    <<>> }

\* the (job, score) pairs of a list of jobs
ScoredJobs(jobs, lists, resume_skills) ==
  [i \in 1..Len(jobs) |-> <<jobs[i], classify_job(jobs[i], lists, resume_skills)>>]

\* a descending sort that puts equal scores in the reverse of their input order
SortByScore_ties_reversed(pairs) ==
  LET n == Len(pairs)
      rev == [i \in 1..n |-> pairs[n + 1 - i]]
      order == SortedIndicesDesc([i \in 1..n |-> rev[i][2]])
  IN [p \in 1..n |-> rev[order[p]]]

\* pairs.sort(key=lambda x: x[1], reverse=True)
SortByScore(pairs) ==
  LET order == SortedIndicesDesc([i \in 1..Len(pairs) |-> pairs[i][2]])
  IN [p \in 1..Len(pairs) |-> pairs[order[p]]]

filter_relevant_jobs(jobs, lists, resume_skills, threshold) ==
  LET Relevant(pair) == FracGeq(pair[2], threshold)
      relevant == SelectSeq(ScoredJobs(jobs, lists, resume_skills), Relevant)
  IN SortByScore(relevant)

rank_jobs(jobs, lists, resume_skills) ==
  SortByScore(ScoredJobs(jobs, lists, resume_skills))

FilterRelevantJobs ==
  \E jobs \in ClassifierJobLists, resume_skills \in ResumeSkillLists,
     threshold \in {Frac(3, 10), Frac(1, 2), One} :
    /\ ret' = filter_relevant_jobs(jobs, ClassifierLists, resume_skills, threshold)
    /\ last' = [op |-> "filter_relevant_jobs", jobs |-> jobs,
                resume_skills |-> resume_skills, threshold |-> threshold]
    /\ NothingStored

RankJobs ==
  \E jobs \in ClassifierJobLists, resume_skills \in ResumeSkillLists :
    /\ ret' = rank_jobs(jobs, ClassifierLists, resume_skills)
    /\ last' = [op |-> "rank_jobs", jobs |-> jobs, resume_skills |-> resume_skills,
                threshold |-> Zero]
    /\ NothingStored

\* pairs is the stable, non-increasing arrangement of the (job, score) pairs of
\* the jobs at the positions kept
StablyRanked(pairs, jobs, resume_skills, kept) ==
  /\ Len(pairs) = Cardinality(kept)
  /\ \E f \in [1..Len(pairs) -> kept] :
       /\ \A p, q \in 1..Len(pairs) : p # q => f[p] # f[q]
       /\ \A p \in 1..Len(pairs) :
            pairs[p] = <<jobs[f[p]],
                         classify_job(jobs[f[p]], ClassifierLists, resume_skills)>>
       /\ \A p, q \in 1..Len(pairs) :
            p < q => \/ FracLt(pairs[q][2], pairs[p][2])
                     \/ (pairs[q][2] = pairs[p][2] /\ f[p] < f[q])

\* C13: filter_relevant_jobs returns exactly the (job, score) pairs of the input
\* jobs whose classify_job score is >= threshold and rank_jobs one pair per input
\* job, both in non-increasing score order with equal scores in input order.
C13_FilterAndRankAreStable ==
  /\ last.op = "filter_relevant_jobs" =>
       StablyRanked(ret, last.jobs, last.resume_skills,
                    {i \in 1..Len(last.jobs) :
                       FracGeq(classify_job(last.jobs[i], ClassifierLists,
                                            last.resume_skills),
                               last.threshold)})
  /\ last.op = "rank_jobs" =>
       StablyRanked(ret, last.jobs, last.resume_skills, 1..Len(last.jobs))

\* a filter that drops a job and moves one up, keeping two equal scores in order
C13_Witness ==
  /\ last.op = "filter_relevant_jobs"
  /\ 1 < Len(ret)
  /\ Len(ret) < Len(last.jobs)
  /\ ret[1][1] # last.jobs[1]
  /\ \E p \in 1..(Len(ret) - 1) : ret[p][2] = ret[p + 1][2]

ClassifierNext ==
  \/ ClassifyJob
  \/ GetMatchDetails
  \/ FilterRelevantJobs
  \/ RankJobs

ClassifierSpec == Init /\ [][ClassifierNext]_vars

-----------------------------------------------------------------------------
(* The customizer used on its own (src/tests/test_customizer.py) *)

\* the requirements lists of the jobs callers customize for
CustomizerLists ==
  << <<"Python", "Docker", "AWS">>,
     <<"Python", "Docker">>,
     <<"microservices", "kubernetes">>,
     <<"Java">>,
     <<"Python", "PYTHON", "Docker">> >>

CustomizerJobs ==
  { [title |-> "Senior Python Developer", company |-> "Tech Corp",
     description |-> "Python expert needed", requirements |-> 1],
    [title |-> "Python Developer", company |-> "Tech Corp", requirements |-> 2],
    [title |-> "Developer", company |-> "Tech", requirements |-> 3],
    [title |-> "Dev 2", company |-> "Corp 2", requirements |-> 4],
    [title |-> "Dev 2", company |-> "Corp 2", requirements |-> 5],
    [title |-> "Senior Developer", company |-> "Tech Inc"] }

\* arguments of update_sample_resume
ResumeUpdates ==
  { [name |-> "New Name"],
    [name |-> "Alex Chen"],
    [experience |-> 10],
    [skills |-> <<"Go", "Rust", "Python", "Java", "Docker", "Kubernetes", "AWS",
                 "Machine Learning", "PostgreSQL", "REST API", "Git", "python">>],
    [skills |-> <<"Python", "Java", "Docker", "Kubernetes", "AWS", "Machine Learning",
                 "PostgreSQL", "REST API", "Git">>, experience |-> 6] }

\* dict.update(updates)
DictUpdate(d, updates) ==
  [k \in DOMAIN d \cup DOMAIN updates |->
     IF k \in DOMAIN updates THEN updates[k] ELSE d[k]]

update_sample_resume(resume, updates) == DictUpdate(resume, updates)

\* ResumeCustomizer(model, vocab) with its sample resume: the object `self`
Customizer == [model |-> model, vocab |-> vocab, sample_resume |-> sample_resume]

\* a customize_for_job whose summary is built from the language model
ResumeCustomizer_customize_for_job_by_model(self, job, lists) ==
  [customize_for_job(self.sample_resume, job, lists)
     EXCEPT !.summary = [template |-> "{generated}", generated |-> self.model]]

\* the methods of ResumeCustomizer, as functions of the object they are called on
ResumeCustomizer_customize_for_job(self, job, lists) ==
  customize_for_job(self.sample_resume, job, lists)

ResumeCustomizer_generate_cover_letter(self, job, resume) ==
  generate_cover_letter(job, resume)

\* what the customizer's methods leave alone, sample_resume apart
CustomizerFrame ==
  /\ UNCHANGED <<sample_jobs, req_lists, workflow_results, returned, adds, mutations,
                 cleared>>
  /\ ModelUnchanged
  /\ UNCHANGED config

CustomizeForJob ==
  \E job \in CustomizerJobs :
    /\ ret' = ResumeCustomizer_customize_for_job(Customizer, job, CustomizerLists)
    /\ last' = [op |-> "customize_for_job", job |-> job]
    /\ UNCHANGED sample_resume
    /\ CustomizerFrame

\* a cover letter for a job, from the resume customized for it or from the caller's own
GenerateCoverLetter ==
  \E job \in CustomizerJobs :
    \E resume \in {[name |-> "John Doe", customized_for |-> [matching_skills |-> <<"Python">>]],
                   ResumeCustomizer_customize_for_job(Customizer, job, CustomizerLists)} :
      /\ ret' = ResumeCustomizer_generate_cover_letter(Customizer, job, resume)
      /\ last' = [op |-> "generate_cover_letter", job |-> job, resume |-> resume]
      /\ UNCHANGED sample_resume
      /\ CustomizerFrame

GetSampleResume ==
  /\ ret' = get_sample_resume(sample_resume)
  /\ last' = [op |-> "get_sample_resume"]
  /\ UNCHANGED sample_resume
  /\ CustomizerFrame

UpdateSampleResume ==
  \E updates \in ResumeUpdates :
    /\ sample_resume' = update_sample_resume(sample_resume, updates)
    /\ ret' = None
    /\ last' = [op |-> "update_sample_resume", updates |-> updates]
    /\ CustomizerFrame

CustomizerNext ==
  \/ CustomizeForJob
  \/ GenerateCoverLetter
  \/ GetSampleResume
  \/ UpdateSampleResume

CustomizerSpec == Init /\ [][CustomizerNext]_vars

\* a resume skill that some requirement of the job names, whatever the case
IsRequired(skill, job) ==
  Lower(Chars(skill)) \in Lowered(Requirements(job, CustomizerLists))

\* skills is resume_skills with the skills the job requires moved to the front,
\* each group in the resume's order, cut to the first ten
Prioritized(skills, resume_skills, job) ==
  LET Req(s) == IsRequired(s, job)
      NotReq(s) == ~IsRequired(s, job)
      front == SelectSeq(skills, Req)
      back == SelectSeq(skills, NotReq)
  IN /\ Len(skills) = Min(Len(resume_skills), 10)
     /\ skills = front \o back
     /\ front = SubSeq(SelectSeq(resume_skills, Req), 1, Len(front))
     /\ back = SubSeq(SelectSeq(resume_skills, NotReq), 1, Len(back))
     /\ back # <<>> => front = SelectSeq(resume_skills, Req)

\* C14: customize_for_job returns a skills list that is the sample resume's skills
\* reordered (cut to the first ten): the skills matching a job requirement
\* case-insensitively first, each group in the resume's order, none added,
\* dropped or duplicated; the sample resume itself is left unchanged.
C14_SkillsAreReordered ==
  [][last'.op = "customize_for_job" =>
       /\ sample_resume' = sample_resume
       /\ Prioritized(ret'.skills, sample_resume.skills, last'.job)]_vars

\* more than ten skills, of which one that is not the resume's first moved up
C14_Witness ==
  /\ last.op = "customize_for_job"
  /\ Len(sample_resume.skills) > 10
  /\ ret.skills[1] # sample_resume.skills[1]
  /\ Len(ret.customized_for.matching_skills) > 1

-----------------------------------------------------------------------------
(* The workflow under any language model *)

\* an agent whose customizer was constructed with some model and vocabulary
ModelInit ==
  /\ Constructed
  /\ model \in Models
  /\ vocab \in Vocabularies
  /\ config = Configuration(FALSE)

ModelNext ==
  \/ RunWorkflow
  \/ CustomizeForJob
  \/ GenerateCoverLetter

ModelSpec == ModelInit /\ [][ModelNext]_vars

\* C15: the language model and the vocabulary never influence the workflow: for
\* the same catalog, sample resume and arguments, run_workflow, customize_for_job
\* and generate_cover_letter return what they would return on a customizer
\* constructed with any other model and vocabulary, and none of them calls the
\* model's forward pass or generation.
C15_ModelNeverInfluences ==
  /\ model_calls = 0
  /\ \A m \in Models, v \in Vocabularies :
       LET other == [Customizer EXCEPT !.model = m, !.vocab = v]
       IN /\ last.op = "customize_for_job" =>
               ret = ResumeCustomizer_customize_for_job(other, last.job, CustomizerLists)
          /\ last.op = "generate_cover_letter" =>
               ret = ResumeCustomizer_generate_cover_letter(other, last.job, last.resume)
          /\ last.op = "run_workflow" =>
               /\ ret = run_workflow(sample_jobs, req_lists,
                                     get_sample_resume(other.sample_resume),
                                     last.keywords, last.location, last.num_jobs,
                                     last.min_relevance)
               /\ \A i \in 1..Len(ret.applications) :
                    LET app == ret.applications[i]
                    IN /\ app.customized_resume =
                            ResumeCustomizer_customize_for_job(other, app.job, req_lists)
                       /\ app.cover_letter =
                            ResumeCustomizer_generate_cover_letter(
                              other, app.job, app.customized_resume)

\* a run that applied to a job, on a customizer built with the small model
C15_Witness ==
  /\ last.op = "run_workflow"
  /\ ret.applications # <<>>
  /\ model.vocab_size = 100
  /\ vocab.vocab_size = 100

-----------------------------------------------------------------------------
(* The agent's reports and applications (src/src/agent.py) *)

\* f"{x:.N%}"
FormatPercentPlaces(x, places) ==
  FormatFixed(Frac(x[1] * 100, x[2]), places) \o <<"%">>

\* The report is a fixed text with holes; the model keeps what fills them.
_format_text_report(result) ==
  LET top == SliceTo(result.applications, 5)
  IN [template |-> "JOB APPLICATION REPORT ... Summary: ... Top Applications: ...",
      total_jobs_found |-> result.total_jobs_found,
      relevant_jobs |-> result.relevant_jobs,
      pass_rate |-> FormatPercentPlaces(result.pass_rate, 1),
      avg_relevance_score |-> FormatFixed(result.avg_relevance_score, 3),
      top_applications |->
        [i \in 1..Len(top) |->
           [i |-> i,
            title |-> top[i].job.title,
            company |-> top[i].job.company,
            relevance |-> FormatPercentPlaces(top[i].relevance_score, 2),
            match |-> top[i].match_details.match_percentage,
            recommendation |-> top[i].recommended_action]]]

\* json.dumps and str keep the whole result; the model keeps the result they print
export_results(history, format) ==
  IF history = <<>> THEN "No results to export"
  ELSE LET last_result == history[Len(history)]
       IN IF format = "json" THEN [json |-> last_result, indent |-> 2]
          ELSE IF format = "text" THEN _format_text_report(last_result)
          ELSE [str |-> last_result]

apply_to_job(application) ==
  LET job == application.job
  IN [job_id |-> Get(job, "id", None),
      job_title |-> Get(job, "title", None),
      company |-> Get(job, "company", None),
      application_date |-> "2025-11-10",
      status |-> "Submitted",
      relevance_score |-> application.relevance_score,
      resume_customized |-> TRUE,
      cover_letter_included |-> TRUE,
      message |-> "Application successfully submitted"]

batch_apply(applications, auto_apply_threshold) ==
  LET Applies(app) == FracGeq(app.relevance_score, auto_apply_threshold)
      chosen == SelectSeq(applications, Applies)
  IN [i \in 1..Len(chosen) |-> apply_to_job(chosen[i])]

\* how callers pass the threshold: by position, by the parameter's name, by the
\* name `threshold`, or not at all
BatchApplyCalls ==
  { [keyword |-> "threshold", value |-> Frac(6, 10)],
    [keyword |-> "threshold", value |-> Frac(1, 2)],
    [keyword |-> "auto_apply_threshold", value |-> Frac(1, 2)],
    [keyword |-> "positional", value |-> Frac(6, 10)],
    [keyword |-> "default"] }

\* a call of batch_apply: Python binds the arguments to the parameters
\* (self, applications, auto_apply_threshold=0.7) and raises TypeError for a
\* keyword no parameter has
Call_batch_apply(applications, call) ==
  IF call.keyword \in {"positional", "auto_apply_threshold"}
    THEN [returns |-> batch_apply(applications, call.value)]
  ELSE IF call.keyword = "default"
    THEN [returns |-> batch_apply(applications, Frac(7, 10))]
  ELSE [raises |-> "TypeError"]

ExportResults ==
  \E format \in {"json", "text", "csv"} :
    /\ ret' = export_results(workflow_results, format)
    /\ last' = [op |-> "export_results", format |-> format]
    /\ UNCHANGED <<sample_resume, workflow_results, returned, cleared>>
    /\ ScraperUnchanged

\* the caller applies to the applications the call before gave it
BatchApply ==
  \E call \in BatchApplyCalls :
    LET applications == IF last.op = "run_workflow" THEN ret.applications ELSE ret
    IN /\ last.op \in {"run_workflow", "get_top_matches"}
       /\ ret' = Call_batch_apply(applications, call)
       /\ last' = [op |-> "batch_apply", applications |-> applications, call |-> call]
       /\ UNCHANGED <<sample_resume, workflow_results, returned, cleared>>
       /\ ScraperUnchanged

HistoryNext ==
  \/ RunWorkflow
  \/ GetTopMatches
  \/ GetWorkflowHistory
  \/ ClearHistory
  \/ ExportResults
  \/ BatchApply

HistorySpec == Init /\ [][HistoryNext]_vars

\* C16: after clear_history the workflow history is empty, and until the next
\* run_workflow get_workflow_history returns an empty list, get_top_matches an
\* empty list for every n and export_results 'No results to export' for every
\* format.
C16_ClearedHistoryStaysEmpty ==
  cleared =>
    /\ workflow_results = <<>>
    /\ last.op = "get_workflow_history" => ret = <<>>
    /\ last.op = "get_top_matches" => ret = <<>>
    /\ last.op = "export_results" => ret = "No results to export"

\* an export asked for while the history is cleared
C16_Witness ==
  /\ cleared
  /\ last.op = "export_results"
  /\ last.format = "text"

\* the applications of a list that reach a threshold, in the list's order
Reaching(applications, t) ==
  LET Reaches(app) == FracGeq(app.relevance_score, t)
  IN SelectSeq(applications, Reaches)

\* C17: batch_apply(applications, threshold=t) returns a list holding one result
\* with status 'Submitted' for each application whose relevance_score is >= t,
\* in input order, and no result for an application below t.
C17_BatchApplyAboveThreshold ==
  (last.op = "batch_apply" /\ "value" \in DOMAIN last.call) =>
    LET expected == Reaching(last.applications, last.call.value)
    IN /\ "returns" \in DOMAIN ret
       /\ Len(ret.returns) = Len(expected)
       /\ \A i \in 1..Len(expected) :
            /\ ret.returns[i].status = "Submitted"
            /\ ret.returns[i].job_id = Get(expected[i].job, "id", None)
            /\ ret.returns[i].relevance_score = expected[i].relevance_score

-----------------------------------------------------------------------------
(* Operations of Configuration (src/src/config.py) *)

\* the attribute each section name of update_config stands for
SectionAttribute ==
  [model |-> "model_config", training |-> "training_config",
   scraper |-> "scraper_config", customizer |-> "customizer_config",
   classifier |-> "classifier_config", agent |-> "agent_config"]

\* an update_config that also knows the logging section
update_config_with_logging(cfg, section, updates) ==
  LET known == [k \in DOMAIN SectionAttribute \cup {"logging"} |->
                  IF k = "logging" THEN "logging_config" ELSE SectionAttribute[k]]
  IN IF section \in DOMAIN known
       THEN [config |-> [cfg EXCEPT ![known[section]] = DictUpdate(@, updates)],
             outcome |-> None]
       ELSE [config |-> cfg, outcome |-> [raises |-> "ValueError"]]

\* the configuration after update_config(section, updates), and how the call ends
update_config(cfg, section, updates) ==
  IF section \in DOMAIN SectionAttribute
    THEN [config |-> [cfg EXCEPT ![SectionAttribute[section]] = DictUpdate(@, updates)],
          outcome |-> None]
    ELSE [config |-> cfg, outcome |-> [raises |-> "ValueError"]]

\* a dictionary handed out is the object itself: the model names it by its attribute
get_model_config == [ref |-> "model_config"]

get_all(cfg) ==
  [device |-> cfg.device,
   model |-> [ref |-> "model_config"],
   training |-> [ref |-> "training_config"],
   scraper |-> [ref |-> "scraper_config"],
   customizer |-> [ref |-> "customizer_config"],
   classifier |-> [ref |-> "classifier_config"],
   agent |-> [ref |-> "agent_config"],
   logging |-> [ref |-> "logging_config"],
   paths |-> [ref |-> "paths"],
   api |-> [ref |-> "api_config"],
   features |-> [ref |-> "features"]]

\* (section, updates) arguments of update_config
ConfigUpdates ==
  { [section |-> "training", updates |-> [learning_rate |-> Frac(5, 10000)]],
    [section |-> "model", updates |-> [hidden_dim |-> 512, checkpoint |-> "best"]],
    [section |-> "agent", updates |-> [auto_apply |-> TRUE]],
    [section |-> "scraper", updates |-> [max_jobs |-> 100]],
    [section |-> "classifier", updates |-> [relevance_threshold |-> Frac(3, 10)]],
    [section |-> "customizer", updates |-> [max_resume_length |-> 2000]],
    [section |-> "logging", updates |-> [log_level |-> "DEBUG"]],
    [section |-> "invalid_section", updates |-> [max_jobs |-> 100]],
    [section |-> "Model", updates |-> [hidden_dim |-> 512]] }

ConfigFrame ==
  /\ UNCHANGED <<sample_jobs, req_lists, sample_resume, workflow_results, returned,
                 adds, mutations, cleared>>
  /\ ModelUnchanged

UpdateConfig ==
  \E call \in ConfigUpdates :
    LET done == update_config(config, call.section, call.updates)
    IN /\ config' = done.config
       /\ ret' = done.outcome
       /\ last' = [op |-> "update_config", section |-> call.section,
                   updates |-> call.updates]
       /\ ConfigFrame

GetModelConfig ==
  /\ ret' = get_model_config
  /\ last' = [op |-> "get_model_config"]
  /\ UNCHANGED config
  /\ ConfigFrame

GetAll ==
  /\ ret' = get_all(config)
  /\ last' = [op |-> "get_all"]
  /\ UNCHANGED config
  /\ ConfigFrame

\* model_config[key] = value, by a caller, on the dictionary get_model_config gave it
CallerChangesModelConfig ==
  \E change \in { [vocab_size |-> 1], [hidden_dim |-> 0, num_layers |-> 0] } :
    /\ last.op \in {"get_model_config", "caller_changes_model_config"}
    /\ config' = [config EXCEPT ![ret.ref] = DictUpdate(@, change)]
    /\ UNCHANGED ret
    /\ last' = [op |-> "caller_changes_model_config", change |-> change]
    /\ ConfigFrame

\* a Configuration built on a machine with or without CUDA
ConfigInit ==
  /\ Constructed
  /\ model = InterfaceModel
  /\ vocab = InterfaceVocabulary
  /\ config \in {Configuration(cuda_available) : cuda_available \in BOOLEAN}

ConfigNext ==
  \/ UpdateConfig
  \/ GetModelConfig
  \/ GetAll
  \/ CallerChangesModelConfig

ConfigSpec == ConfigInit /\ [][ConfigNext]_vars

SixSections == {"model", "training", "scraper", "customizer", "classifier", "agent"}

\* the attributes of a Configuration that hold a section
Sections(cfg) == DOMAIN cfg \ {"device"}

\* C18: update_config with a section name other than model, training, scraper,
\* customizer, classifier or agent raises ValueError and leaves every section
\* unchanged; with one of the six it sets exactly the given keys in that section
\* and leaves every other key and every other section unchanged.
C18_UpdateConfigTouchesOneSection ==
  [][last'.op = "update_config" =>
       IF last'.section \notin SixSections
         THEN ret' = [raises |-> "ValueError"] /\ config' = config
         ELSE LET attr == last'.section \o "_config"
                  updates == last'.updates
              IN /\ ret' = None
                 /\ \A other \in DOMAIN config \ {attr} : config'[other] = config[other]
                 /\ DOMAIN config'[attr] = DOMAIN config[attr] \cup DOMAIN updates
                 /\ \A k \in DOMAIN updates : config'[attr][k] = updates[k]
                 /\ \A k \in DOMAIN config[attr] \ DOMAIN updates :
                      config'[attr][k] = config[attr][k]]_vars

\* a refused update of a configuration that accepted updates brought a new key to
C18_Witness ==
  /\ last.op = "update_config"
  /\ ret = [raises |-> "ValueError"]
  /\ "checkpoint" \in DOMAIN config.model_config
  /\ config.training_config.learning_rate = Frac(5, 10000)

\* C19: get_model_config gives a copy of the model configuration: two successive
\* calls return equal dictionaries, and changing a dictionary a call returned
\* changes nothing of the configuration later get_model_config or get_all calls
\* return.
C19_ModelConfigIsACopy ==
  [][/\ (last.op = "get_model_config" /\ last'.op = "get_model_config") =>
          config'[ret'.ref] = config[ret.ref]
     /\ last'.op = "caller_changes_model_config" => config' = config]_vars

-----------------------------------------------------------------------------
(* UtilityFunctions (src/src/utils.py) *)

\* the characters the pattern [^a-z0-9\s+#] does not match
KeptCharacters ==
  {"a", "b", "c", "d", "e", "f", "g", "h", "i", "j", "k", "l", "m", "n", "o", "p", "q",
   "r", "s", "t", "u", "v", "w", "x", "y", "z"}
    \cup Range(Digit) \cup Whitespace \cup {"+", "#"}

\* re.sub(r'\s+', ' ', text): every run of whitespace becomes one space
RECURSIVE CollapseWhitespace(_, _)
CollapseWhitespace(text, i) ==
  IF i > Len(text) THEN <<>>
  ELSE IF text[i] \notin Whitespace THEN <<text[i]>> \o CollapseWhitespace(text, i + 1)
  ELSE IF i > 1 /\ text[i - 1] \in Whitespace THEN CollapseWhitespace(text, i + 1)
  ELSE <<" ">> \o CollapseWhitespace(text, i + 1)

\* str.strip()
Strip(text) ==
  LET inside == {i \in 1..Len(text) : text[i] \notin Whitespace}
  IN IF inside = {} THEN <<>>
     ELSE SubSeq(text, CHOOSE i \in inside : \A j \in inside : i <= j,
                       CHOOSE i \in inside : \A j \in inside : j <= i)

clean_text(text) ==
  IF text = <<>> THEN <<>>
  ELSE LET lowered == Lower(text)
           Kept(c) == c \in KeptCharacters
           stripped == SelectSeq(lowered, Kept)
       IN Strip(CollapseWhitespace(stripped, 1))

\* the short texts callers clean, over a few characters of each kind
RECURSIVE TextsOfLength(_)
TextsOfLength(n) ==
  IF n = 0 THEN {<<>>}
  ELSE {Append(t, c) : t \in TextsOfLength(n - 1), c \in {"A", "b", "1", " ", "\t", "!", "#", "+"}}

CleanTextInputs ==
  {Chars("Python Programming!@#$ Expert"), Chars("PYTHON"), Chars("C++ & C# developer")}
    \cup UNION {TextsOfLength(n) : n \in 0..MaxTextLen}

CleanText ==
  \E text \in CleanTextInputs :
    /\ ret' = clean_text(text)
    /\ last' = [op |-> "clean_text", text |-> text]
    /\ NothingStored

\* text[j], or the empty string past the end of the text
CharAt(text, j) == IF j \in 1..Len(text) THEN text[j] ELSE ""

\* the last index of the run of digits \d+ takes from index i
RECURSIVE DigitsEnd(_, _)
DigitsEnd(text, i) ==
  IF CharAt(text, i + 1) \in Range(Digit) THEN DigitsEnd(text, i + 1) ELSE i

\* the index \s* stops at from index j
RECURSIVE SkipWhitespace(_, _)
SkipWhitespace(text, j) ==
  IF CharAt(text, j) \in Whitespace THEN SkipWhitespace(text, j + 1) ELSE j

\* (?:years?|yrs?) at index j, under re.IGNORECASE
UnitAt(text, j) ==
  /\ LowerChar(CharAt(text, j)) = "y"
  /\ \/ LowerChar(CharAt(text, j + 1)) = "r"
     \/ /\ LowerChar(CharAt(text, j + 1)) = "e"
        /\ LowerChar(CharAt(text, j + 2)) = "a"
        /\ LowerChar(CharAt(text, j + 3)) = "r"

\* the two patterns of extract_experience, in the order of its list
patterns == <<"(\\d+)\\+?\\s*(?:years?|yrs?)", "(\\d+)\\s*-\\s*\\d+\\s*(?:years?|yrs?)">>

\* whether a pattern matches from index i of the text
MatchesAt(pattern, text, i) ==
  /\ CharAt(text, i) \in Range(Digit)
  /\ LET e == DigitsEnd(text, i)
     IN IF pattern = patterns[1]
        THEN UnitAt(text, SkipWhitespace(text, IF CharAt(text, e + 1) = "+" THEN e + 2 ELSE e + 1))
        ELSE LET dash == SkipWhitespace(text, e + 1)
                 second == SkipWhitespace(text, dash + 1)
             IN /\ CharAt(text, dash) = "-"
                /\ CharAt(text, second) \in Range(Digit)
                /\ UnitAt(text, SkipWhitespace(text, DigitsEnd(text, second) + 1))

\* int() of the digits text[i..e]
RECURSIVE IntOf(_, _, _)
IntOf(text, i, e) ==
  LET d == (CHOOSE k \in 1..10 : Digit[k] = text[e]) - 1
  IN IF e = i THEN d ELSE IntOf(text, i, e - 1) * 10 + d

\* the indices at which re.findall can find the pattern
MatchStarts(pattern, text) == {i \in 1..Len(text) : MatchesAt(pattern, text, i)}

\* int(matches[0]): the group of the leftmost match
FirstGroup(starts, text) ==
  LET i == CHOOSE s \in starts : \A t \in starts : s <= t
  IN IntOf(text, i, DigitsEnd(text, i))

extract_experience(text) ==
  IF MatchStarts(patterns[1], text) # {}
  THEN FirstGroup(MatchStarts(patterns[1], text), text)
  ELSE IF MatchStarts(patterns[2], text) # {}
  THEN FirstGroup(MatchStarts(patterns[2], text), text)
  ELSE 0

\* the texts callers extract from: those of the test suite, and a number, an
\* optional second number and a unit with the separators between them
ExperienceTexts ==
  {\* "I have 5 years of experience"
   <<"I"," ","h","a","v","e"," ","5"," ","y","e","a","r","s"," ","o","f"," ","e","x","p","e","r","i","e","n","c","e">>,
   \* "5+ years experience"
   <<"5","+"," ","y","e","a","r","s"," ","e","x","p","e","r","i","e","n","c","e">>,
   \* "2-3 years required"
   <<"2","-","3"," ","y","e","a","r","s"," ","r","e","q","u","i","r","e","d">>,
   \* "Just a random text"
   <<"J","u","s","t"," ","a"," ","r","a","n","d","o","m"," ","t","e","x","t">>}
    \cup {n \o s1 \o rest \o unit :
            n \in {<<"2">>, <<"1","3">>},
            s1 \in {<<>>, <<"+">>, <<" ">>, <<"-">>, <<" ","-"," ">>, <<"+"," ">>},
            rest \in {<<>>} \cup {m \o s2 :
                                    m \in {<<"2">>, <<"1","3">>},
                                    s2 \in {<<>>, <<"+">>, <<" ">>, <<"-">>,
                                            <<" ","-"," ">>, <<"+"," ">>}},
            unit \in {<<"y","e","a","r","s">>, <<"y","r">>, <<"Y","e","a","r","s">>,
                      <<"x">>}}

ExtractExperience ==
  \E text \in ExperienceTexts :
    /\ ret' = extract_experience(text)
    /\ last' = [op |-> "extract_experience", text |-> text]
    /\ NothingStored

UtilsNext ==
  \/ CleanText
  \/ ExtractExperience

UtilsSpec == Init /\ [][UtilsNext]_vars

\* the words of a text: its maximal runs of letters and digits, lowercased, once
\* every other character that is not whitespace is taken out
CleanWords(text) ==
  LET AlphanumericOrSpace(c) == c \in KeptCharacters \ {"+", "#"}
  IN Split(SelectSeq(Lower(text), AlphanumericOrSpace))

\* words joined by single spaces
RECURSIVE SpacedWords(_)
SpacedWords(words) ==
  IF words = <<>> THEN <<>>
  ELSE IF Len(words) = 1 THEN words[1]
  ELSE words[1] \o <<" ">> \o SpacedWords(Tail(words))

\* C20: clean_text lowercases its input, removes every character that is not a
\* letter, a digit or whitespace, and collapses whitespace to single spaces with
\* none at either end ('Python Programming!@#$ Expert' becomes
\* 'python programming expert'); the empty string stays empty.
C20_CleanTextKeepsAlphanumerics ==
  last.op = "clean_text" =>
    /\ ret = SpacedWords(CleanWords(last.text))
    /\ last.text = Chars("Python Programming!@#$ Expert") =>
         ret = Chars("python programming expert")
    /\ last.text = <<>> => ret = <<>>

-----------------------------------------------------------------------------

\* the years the first statement of an experience in the text gives: the number
\* of 'n years' or 'n+ years', the lower bound of 'a-b years', 0 without one
StatedYears(text) ==
  LET starts == MatchStarts(patterns[1], text) \cup MatchStarts(patterns[2], text)
  IN IF starts = {} THEN 0 ELSE FirstGroup(starts, text)

\* C21: extract_experience returns the number of years stated first in the
\* text: n for 'n years' and for 'n+ years', the lower bound a for a range
\* 'a-b years', and 0 when the text mentions no years.
C21_ExtractExperienceFirstStated ==
  last.op = "extract_experience" =>
    /\ ret = StatedYears(last.text)
    /\ last.text = <<"2","-","3"," ","y","e","a","r","s"," ","r","e","q","u","i","r","e","d">>
         => ret = 2

-----------------------------------------------------------------------------
(* ApplicationMonitor (src/scripts/monitor.py) *)

\* the classes an exception requests.get or the interpreter raises is an instance of
InstanceOf(exception) ==
  CASE exception = "ConnectionError" -> {"ConnectionError", "RequestException", "Exception"}
    [] exception = "ConnectTimeout" ->
         {"ConnectTimeout", "ConnectionError", "Timeout", "RequestException", "Exception"}
    [] exception = "ReadTimeout" -> {"ReadTimeout", "Timeout", "RequestException", "Exception"}
    [] exception = "TooManyRedirects" -> {"TooManyRedirects", "RequestException", "Exception"}
    [] exception = "KeyboardInterrupt" -> {"KeyboardInterrupt", "BaseException"}

\* what requests.get(f"{self.app_url}/status", timeout=5) can come back with
RequestOutcomes ==
  <<[status_code |-> 200, elapsed |-> 0],
    [raises |-> "ConnectionError"],
    [status_code |-> 503, elapsed |-> 1],
    [raises |-> "ReadTimeout"],
    [status_code |-> 404, elapsed |-> 0],
    [raises |-> "TooManyRedirects"],
    [raises |-> "ConnectTimeout"],
    [status_code |-> 200, elapsed |-> 2],
    [raises |-> "KeyboardInterrupt"]>>

check_api_health(response) ==
  IF "status_code" \in DOMAIN response
  THEN IF response.status_code = 200
       THEN [status |-> "healthy", response_time |-> response.elapsed, status_code |-> 200]
       ELSE [status |-> "unhealthy", response_time |-> response.elapsed,
             status_code |-> response.status_code]
  ELSE IF "ConnectionError" \in InstanceOf(response.raises)
  THEN [status |-> "unreachable", error |-> "Connection refused"]
  ELSE IF "Timeout" \in InstanceOf(response.raises)
  THEN [status |-> "timeout", error |-> "Request timeout"]
  ELSE IF "Exception" \in InstanceOf(response.raises)
  THEN [status |-> "error", error |-> [str |-> response.raises]]
  ELSE [raises |-> response.raises]

\* psutil's readings of the machine: cpu, memory and disk in percent
SystemReadings ==
  <<[cpu_percent |-> 12, memory_percent |-> 40, memory_available_gb |-> 9,
     disk_percent |-> 55, process_count |-> 200],
    [cpu_percent |-> 95, memory_percent |-> 41, memory_available_gb |-> 9,
     disk_percent |-> 55, process_count |-> 203],
    [cpu_percent |-> 30, memory_percent |-> 90, memory_available_gb |-> 1,
     disk_percent |-> 56, process_count |-> 221]>>

\* what the application and the machine answer to the collection made at a
\* time: a fixed round of the outcomes, the interrupt apart
Readings(time) ==
  [response |-> RequestOutcomes[(time % (Len(RequestOutcomes) - 1)) + 1],
   system |-> SystemReadings[(time % Len(SystemReadings)) + 1]]

\* the first samples in place of the last
collect_metrics_keeps_oldest(self_metrics, timestamp, readings) ==
  LET sample == [timestamp |-> timestamp,
                 api_health |-> check_api_health(readings.response),
                 system |-> readings.system,
                 application |-> <<>>]
      appended == Append(self_metrics, sample)
  IN [metrics |-> IF Len(appended) > 1000 THEN SubSeq(appended, 1, 1000) ELSE appended,
      returns |-> sample]

\* the list self.metrics is left as, and the sample returned
collect_metrics(self_metrics, timestamp, readings) ==
  LET sample == [timestamp |-> timestamp,
                 api_health |-> check_api_health(readings.response),
                 system |-> readings.system,
                 application |-> <<>>]
      appended == Append(self_metrics, sample)
  IN [metrics |-> IF Len(appended) > 1000
                  THEN SubSeq(appended, Len(appended) - 999, Len(appended))
                  ELSE appended,
      returns |-> sample]

\* sum(values[lo..hi]), added up by halves
RECURSIVE SumOf(_, _, _)
SumOf(values, lo, hi) ==
  IF lo > hi THEN 0
  ELSE IF lo = hi THEN values[lo]
  ELSE LET mid == (lo + hi) \div 2
       IN SumOf(values, lo, mid) + SumOf(values, mid + 1, hi)

MaxOf(values) == CHOOSE v \in Range(values) : \A w \in Range(values) : w <= v

get_summary(self_metrics) ==
  IF self_metrics = <<>> THEN [key \in {} |-> None]
  ELSE LET cpu_values == [i \in 1..Len(self_metrics) |-> self_metrics[i].system.cpu_percent]
           memory_values ==
             [i \in 1..Len(self_metrics) |-> self_metrics[i].system.memory_percent]
       IN [total_samples |-> Len(self_metrics),
           cpu_avg |-> Frac(SumOf(cpu_values, 1, Len(cpu_values)), Len(cpu_values)),
           cpu_max |-> MaxOf(cpu_values),
           memory_avg |-> Frac(SumOf(memory_values, 1, Len(memory_values)), Len(memory_values)),
           memory_max |-> MaxOf(memory_values)]

\* what a method of the monitor leaves alone
MonitorFrame ==
  UNCHANGED <<sample_jobs, req_lists, sample_resume, workflow_results, returned, adds,
              mutations, cleared, model, vocab, model_calls, config, generation, trainer>>

CheckApiHealth ==
  \E i \in DOMAIN RequestOutcomes :
    /\ run.pc \in {"idle", "returned"}
    /\ ret' = check_api_health(RequestOutcomes[i])
    /\ last' = [op |-> "check_api_health", response |-> RequestOutcomes[i]]
    /\ UNCHANGED <<metrics, clock, run>>
    /\ MonitorFrame

\* a collect_metrics call, as run_once makes it; psutil.cpu_percent(interval=1)
\* takes a second of it
CollectMetrics ==
  /\ clock < MaxCollections
  /\ LET done == collect_metrics(metrics, clock, Readings(clock))
     IN /\ metrics' = done.metrics
        /\ ret' = done.returns
  /\ clock' = clock + 1
  /\ last' = [op |-> "collect_metrics"]
  /\ UNCHANGED run
  /\ MonitorFrame

GetSummary ==
  /\ ret' = get_summary(metrics)
  /\ last' = [op |-> "get_summary"]
  /\ UNCHANGED <<metrics, clock, run>>
  /\ MonitorFrame

\* the monitor's methods called one after another on one monitor
MonitorNext ==
  \/ CollectMetrics
  \/ GetSummary

MonitorSpec == Init /\ [][MonitorNext]_vars

-----------------------------------------------------------------------------

\* C26: after any number of collect_metrics calls the monitor holds at most 1000
\* samples, and they are the most recently collected ones in collection order;
\* get_summary's total_samples therefore never exceeds 1000.
C26_MetricsAreTheLatestThousand ==
  /\ Len(metrics) = Min(clock, 1000)
  /\ \A i \in 1..Len(metrics) : metrics[i].timestamp = clock - Len(metrics) + i - 1
  /\ last.op = "get_summary" /\ metrics # <<>> =>
       ret.total_samples = Len(metrics) /\ ret.total_samples <= 1000

\* more than 1000 samples were collected, and a summary taken
C26_Witness ==
  /\ clock > 1000
  /\ last.op = "get_summary"
  /\ metrics[1].timestamp > 0

-----------------------------------------------------------------------------
(* ApplicationMonitor.run_continuous, one step of its loop at a time *)

\* the --duration values main passes on: none, or a number of seconds
Durations == {None, [seconds |-> 0], [seconds |-> 1], [seconds |-> 4]}

\* `duration and ...`: None and 0 are false
Truthy(duration) == duration # None /\ duration.seconds # 0

\* time.time() - start_time
Elapsed == clock - run.start_time

\* run_continuous is entered, on a monitor built with an interval
StartRun ==
  \E duration \in Durations, interval \in {1, 2} :
    /\ run.pc = "idle"
    /\ run' = [pc |-> "loop", duration |-> duration, interval |-> interval,
               start_time |-> clock, sample_count |-> 0, interrupted |-> FALSE,
               summary |-> None, saved |-> None]
    /\ last' = [op |-> "run_continuous", duration |-> duration, interval |-> interval]
    /\ UNCHANGED <<ret, metrics, clock>>
    /\ MonitorFrame

\* one pass of `while True`: the test of the duration, then a sample and the sleep
Iterate ==
  /\ run.pc = "loop"
  /\ IF Truthy(run.duration) /\ Elapsed > run.duration.seconds
     THEN /\ run' = [run EXCEPT !.pc = "finally"]
          /\ UNCHANGED <<metrics, clock>>
     ELSE /\ run.sample_count < MaxSamples
          /\ metrics' = collect_metrics(metrics, clock, Readings(clock)).metrics
          /\ run' = [run EXCEPT !.sample_count = @ + 1]
          /\ clock' = clock + 1 + run.interval
  /\ UNCHANGED <<last, ret>>
  /\ MonitorFrame

\* a KeyboardInterrupt arrives while the loop sleeps
Interrupt ==
  /\ run.pc = "loop"
  /\ run' = [run EXCEPT !.pc = "finally", !.interrupted = TRUE]
  /\ UNCHANGED <<last, ret, metrics, clock>>
  /\ MonitorFrame

\* the finally block: the summary is logged, the metrics are saved, the call returns
Finish ==
  /\ run.pc = "finally"
  /\ run' = [run EXCEPT !.pc = "returned", !.summary = get_summary(metrics),
                        !.saved = metrics]
  /\ ret' = None
  /\ last' = [op |-> "run_continuous", duration |-> run.duration, interval |-> run.interval]
  /\ UNCHANGED <<metrics, clock>>
  /\ MonitorFrame

\* the monitoring script: health checks, and one continuous run
RunNext ==
  \/ CheckApiHealth
  \/ StartRun
  \/ Iterate
  \/ Interrupt
  \/ Finish

RunSpec == Init /\ [][RunNext]_vars

-----------------------------------------------------------------------------

\* C22: check_api_health never raises: a response with status 200 gives status
\* 'healthy', a response with any other status code gives 'unhealthy' together
\* with that code, a connection error gives 'unreachable', a timeout gives
\* 'timeout', and any other exception gives 'error'; exactly one of these five
\* outcomes is returned for every call.
C22_HealthOutcomeByCase ==
  last.op = "check_api_health" =>
    /\ "raises" \notin DOMAIN ret
    /\ ret.status \in {"healthy", "unhealthy", "unreachable", "timeout", "error"}
    /\ IF "status_code" \in DOMAIN last.response
       THEN IF last.response.status_code = 200
            THEN ret.status = "healthy"
            ELSE ret.status = "unhealthy" /\ ret.status_code = last.response.status_code
       ELSE LET classes == InstanceOf(last.response.raises)
            IN /\ "ConnectionError" \in classes => ret.status = "unreachable"
               /\ "Timeout" \in classes => ret.status = "timeout"
               /\ classes \cap {"ConnectionError", "Timeout"} = {} => ret.status = "error"

\* C27: run_continuous called with a duration d (any integer number of seconds
\* >= 0) stops sampling once more than d seconds have elapsed and returns; only
\* a call without a duration runs until interrupted; on every exit path,
\* including a keyboard interrupt, the summary is logged and the collected
\* metrics are saved to a file.
C27_RunStopsAfterDuration ==
  [][/\ run.pc = "loop" /\ run.duration # None /\ Elapsed > run.duration.seconds =>
          run'.pc = "finally" /\ metrics' = metrics
     /\ run'.pc = "returned" =>
          run'.saved = metrics' /\ run'.summary = get_summary(metrics')]_vars

-----------------------------------------------------------------------------

\* the recommendation of the band a score lies in
BandOf(score) ==
  IF FracGeq(score, Frac(8, 10)) THEN "Highly Recommended - Strong match"
  ELSE IF FracGeq(score, Frac(6, 10)) THEN "Recommended - Good match"
  ELSE IF FracGeq(score, Frac(4, 10)) THEN "Consider - Moderate match"
  ELSE IF FracGeq(score, Frac(2, 10)) THEN "Possible - Weak match"
  ELSE "Not Recommended - Poor match"

\* C23: in every application run_workflow produces, the recommendation matches
\* the score: match_details['relevance_score'] equals the application's
\* relevance_score, and recommended_action is the band of that score (>= 0.8
\* 'Highly Recommended', >= 0.6 'Recommended', >= 0.4 'Consider', >= 0.2
\* 'Possible', otherwise 'Not Recommended'), for every job the catalog can hold,
\* one added with add_sample_job included.
C23_RecommendationMatchesScore ==
  last.op = "run_workflow" =>
    \A i \in 1..Len(ret.applications) :
      LET application == ret.applications[i]
      IN /\ application.match_details.relevance_score = application.relevance_score
         /\ application.recommended_action = BandOf(application.relevance_score)

-----------------------------------------------------------------------------

\* C24: for every job with at least one requirement, customized_for['match_score']
\* in the resume customize_for_job returns equals the score classify_job gives
\* the same job against the sample resume's skills, and lies in [0, 1]; this
\* holds for every requirements list, including one that repeats a skill or
\* differs only in letter case.
C24_MatchScoreIsClassifierScore ==
  last.op = "customize_for_job" /\ Requirements(last.job, CustomizerLists) # <<>> =>
    LET match_score == ret.customized_for.match_score
    IN /\ match_score = classify_job(last.job, CustomizerLists, sample_resume.skills)
       /\ FracGeq(match_score, Zero)
       /\ FracGeq(One, match_score)

-----------------------------------------------------------------------------

\* C25: after add_sample_job(j), get_job_by_id(j['id']) returns a job equal to j,
\* for every job j and every prior catalog state (one that already holds a job
\* with the same id included), and later changes the caller makes to fields of j
\* do not change the stored job.
C25_AddedJobIsFound ==
  [][/\ last.op = "add_sample_job" /\ last'.op = "get_job_by_id"
        /\ last'.job_id = last.job.id => ret' = last.job
     /\ last'.op = "caller_sets_title_of_added" => sample_jobs' = sample_jobs]_vars

-----------------------------------------------------------------------------
(* MAYINIModel.generate (src/src/mayini_model.py), one pass of its loop at a time *)

\* the token ids a prompt holds and the sampling draws
SampledTokens == {3, 7}

\* the prompts generate is given: one to max_seq_len + 1 tokens
RECURSIVE PromptsOfLength(_)
PromptsOfLength(n) ==
  IF n = 0 THEN {<<>>}
  ELSE {Append(prompt, token) : prompt \in PromptsOfLength(n - 1), token \in SampledTokens}

\* what a method of the model leaves alone
GenerationFrame ==
  UNCHANGED <<sample_jobs, req_lists, sample_resume, workflow_results, returned, adds,
              mutations, cleared, model, vocab, config, metrics, clock, run, trainer>>

\* forward(input_ids): the positions 0..seq_len-1 are looked up in pos_embedding,
\* which has max_seq_len rows
forward(self_max_seq_len, input_ids) ==
  IF Len(input_ids) > self_max_seq_len THEN [raises |-> "IndexError"]
  ELSE [returns |-> [seq_len |-> Len(input_ids)]]

\* generate is entered on a model built with max_seq_len: generated = prompt.clone()
Generate ==
  \E max_seq_len \in {2, 3}, max_length \in {0, 1, 2, 50} :
    \E prompt \in UNION {PromptsOfLength(n) : n \in 1..(max_seq_len + 1)} :
      /\ generation.pc = "idle"
      /\ generation' = [pc |-> "loop", max_seq_len |-> max_seq_len, prompt |-> prompt,
                        max_length |-> max_length, generated |-> prompt, passes |-> 0,
                        longest_forward |-> 0]
      /\ last' = [op |-> "generate", prompt |-> prompt, max_length |-> max_length]
      /\ UNCHANGED <<ret, model_calls>>
      /\ GenerationFrame

\* one pass of `for _ in range(max_length)`: a forward pass, a sampled token
\* appended, and the break at max_seq_len; after the last pass the call returns
GenerateStep ==
  /\ generation.pc = "loop"
  /\ IF generation.passes = generation.max_length
     THEN /\ generation' = [generation EXCEPT !.pc = "returned"]
          /\ ret' = generation.generated
          /\ UNCHANGED model_calls
     ELSE LET logits == forward(generation.max_seq_len, generation.generated)
          IN /\ model_calls' = model_calls + 1
             /\ IF "raises" \in DOMAIN logits
                THEN /\ generation' = [generation EXCEPT !.pc = "raised"]
                     /\ ret' = logits
                ELSE \E next_token \in SampledTokens :
                       LET generated == Append(generation.generated, next_token)
                           stop == Len(generated) >= generation.max_seq_len
                       IN /\ generation' =
                               [generation EXCEPT
                                  !.generated = generated,
                                  !.passes = @ + 1,
                                  !.longest_forward = Max(@, logits.returns.seq_len),
                                  !.pc = IF stop THEN "returned" ELSE "loop"]
                          /\ ret' = IF stop THEN generated ELSE ret
  /\ UNCHANGED last
  /\ GenerationFrame

GenerationNext ==
  \/ Generate
  \/ GenerateStep

GenerationSpec == Init /\ [][GenerationNext]_vars

\* C28: for a prompt of at most max_seq_len tokens, generate returns a sequence
\* that starts with the prompt, adds at most max_length tokens, and is never
\* longer than the model's max_seq_len, so every forward pass inside the loop
\* uses only positions below max_seq_len.
C28_GenerateStaysWithinMaxSeqLen ==
  generation.pc # "idle" /\ Len(generation.prompt) <= generation.max_seq_len =>
    /\ generation.pc # "raised"
    /\ generation.longest_forward <= generation.max_seq_len
    /\ generation.pc = "returned" =>
         /\ SubSeq(ret, 1, Len(generation.prompt)) = generation.prompt
         /\ Len(ret) <= Len(generation.prompt) + generation.max_length
         /\ Len(ret) <= generation.max_seq_len

-----------------------------------------------------------------------------
(* ModelTrainer.train (src/scripts/train_model.py), one epoch at a time *)

\* float('inf'), which every loss is below
Infinity == <<1, 0>>

\* the losses a validation pass can come back with
ValidationLosses == {Frac(1, 4), Frac(1, 2), Frac(3, 2), Frac(2, 1)}

\* what the trainer leaves alone
TrainerFrame ==
  UNCHANGED <<sample_jobs, req_lists, sample_resume, workflow_results, returned, adds,
              mutations, cleared, model, vocab, model_calls, metrics, clock, run,
              generation>>

\* config.paths['checkpoint_dir'] = 'checkpoints/', by the caller that built the
\* Configuration, before it builds the trainer
CallerSetsCheckpointDir ==
  /\ trainer.pc = "idle"
  /\ "checkpoint_dir" \notin DOMAIN config.paths
  /\ config' = [config EXCEPT !.paths = DictUpdate(@, [checkpoint_dir |-> "checkpoints/"])]
  /\ last' = [op |-> "caller_sets_checkpoint_dir"]
  /\ UNCHANGED <<ret, trainer>>
  /\ TrainerFrame

\* train is entered: best_val_loss is set, and the checkpoint directory is
\* looked up in config.paths and made
Train ==
  \E num_epochs \in 1..3 :
    /\ trainer.pc = "idle"
    /\ IF "checkpoint_dir" \in DOMAIN config.paths
       THEN /\ trainer' = [pc |-> "epochs", num_epochs |-> num_epochs, epoch |-> 1,
                           best_val_loss |-> Infinity,
                           checkpoint_dir |-> config.paths.checkpoint_dir,
                           passes |-> <<>>, val_losses |-> <<>>, checkpoints |-> <<>>]
            /\ UNCHANGED ret
       ELSE /\ trainer' = [pc |-> "raised", num_epochs |-> num_epochs, epoch |-> 1,
                           best_val_loss |-> Infinity, checkpoint_dir |-> None,
                           passes |-> <<>>, val_losses |-> <<>>, checkpoints |-> <<>>]
            /\ ret' = [raises |-> "KeyError"]
    /\ last' = [op |-> "train", num_epochs |-> num_epochs]
    /\ UNCHANGED config
    /\ TrainerFrame

\* one pass of `for epoch in range(1, num_epochs + 1)`: train_epoch, validate and
\* the checkpoint of a new best loss; after the last epoch train returns
TrainEpoch ==
  /\ trainer.pc = "epochs"
  /\ IF trainer.epoch > trainer.num_epochs
     THEN /\ trainer' = [trainer EXCEPT !.pc = "returned"]
          /\ ret' = None
     ELSE \E val_loss \in ValidationLosses :
            LET better == FracLt(val_loss, trainer.best_val_loss)
                checkpoint == [epoch |-> trainer.epoch, loss |-> val_loss,
                               path |-> [template |-> "{checkpoint_dir}/best_model_epoch_{epoch}.pt",
                                         checkpoint_dir |-> trainer.checkpoint_dir,
                                         epoch |-> trainer.epoch]]
            IN /\ trainer' =
                    [trainer EXCEPT
                       !.passes = @ \o <<"train_epoch", "validate">>,
                       !.val_losses = Append(@, val_loss),
                       !.best_val_loss = IF better THEN val_loss ELSE @,
                       !.checkpoints = IF better THEN Append(@, checkpoint) ELSE @,
                       !.epoch = @ + 1]
               /\ UNCHANGED ret
  /\ UNCHANGED <<last, config>>
  /\ TrainerFrame

TrainerNext ==
  \/ CallerSetsCheckpointDir
  \/ Train
  \/ TrainEpoch

TrainerSpec == Init /\ [][TrainerNext]_vars

\* the epochs whose validation loss is strictly below that of every earlier epoch
BestEpochs(val_losses) ==
  {e \in 1..Len(val_losses) : \A d \in 1..(e - 1) : FracLt(val_losses[e], val_losses[d])}

\* C29: ModelTrainer.train, run with the default Configuration, performs
\* num_epochs epochs, each a training pass followed by a validation pass, and
\* saves a checkpoint in exactly those epochs whose validation loss is strictly
\* lower than that of every earlier epoch, so the last checkpoint saved has the
\* lowest validation loss seen.
C29_TrainSavesEveryNewBest ==
  trainer.pc # "idle" /\ config = Configuration(FALSE) =>
    /\ trainer.pc # "raised"
    /\ {trainer.checkpoints[i].epoch : i \in 1..Len(trainer.checkpoints)}
         = BestEpochs(trainer.val_losses)
    /\ trainer.pc = "returned" =>
         /\ Len(trainer.val_losses) = trainer.num_epochs
         /\ trainer.passes = [i \in 1..(2 * trainer.num_epochs) |->
                                IF i % 2 = 1 THEN "train_epoch" ELSE "validate"]
         /\ \A e \in 1..Len(trainer.val_losses) :
              ~FracLt(trainer.val_losses[e],
                      trainer.checkpoints[Len(trainer.checkpoints)].loss)

-----------------------------------------------------------------------------

\* run_workflow with a min_relevance below every band
RunWorkflowBroadly ==
  \E inp \in { <<"python", "", 5, Frac(1, 10)>>, <<"python docker", "Remote", 3, Frac(1, 10)>>,
                <<"", "", 10, Frac(1, 10)>>, <<" JAVA ", "", 5, Frac(3, 10)>>,
                <<"docker", "", 5, Frac(1, 10)>> } :
    Call_run_workflow(inp)

\* update_sample_resume with the skills of a resume that fits job_001
UpdateSkills ==
  LET updates == [skills |-> <<"Python", "Django", "FastAPI", "Docker", "AWS",
                               "PostgreSQL", "REST API", "Kubernetes", "Terraform">>]
  IN /\ sample_resume' = update_sample_resume(sample_resume, updates)
     /\ ret' = None
     /\ last' = [op |-> "update_sample_resume", updates |-> updates]
     /\ CustomizerFrame

SummaryNext ==
  \/ UpdateSkills
  \/ RunWorkflowBroadly

SummarySpec == Init /\ [][SummaryNext]_vars

\* the number of applications whose score lies in [low, high)
InBand(applications, low, high) ==
  Cardinality({i \in 1..Len(applications) :
                 /\ FracGeq(applications[i].relevance_score, low)
                 /\ FracLt(applications[i].relevance_score, high)})

\* C30: whenever run_workflow produces at least one application, the summary's
\* counts highly_relevant (score >= 0.8), moderately_relevant (0.5 <= score < 0.8)
\* and weakly_relevant (score < 0.5) add up to relevant_found, relevant_found
\* equals the result's relevant_jobs, and total_searched equals total_jobs_found.
C30_SummaryCountsAddUp ==
  last.op = "run_workflow" /\ ret.applications # <<>> =>
    LET summary == ret.summary
    IN /\ summary.highly_relevant = InBand(ret.applications, Frac(8, 10), Infinity)
       /\ summary.moderately_relevant = InBand(ret.applications, Frac(5, 10), Frac(8, 10))
       /\ summary.weakly_relevant = InBand(ret.applications, Zero, Frac(5, 10))
       /\ summary.highly_relevant + summary.moderately_relevant
            + summary.weakly_relevant = summary.relevant_found
       /\ summary.relevant_found = ret.relevant_jobs
       /\ summary.total_searched = ret.total_jobs_found

\* a run whose applications fall into all three bands
C30_Witness ==
  /\ last.op = "run_workflow"
  /\ ret.applications # <<>>
  /\ ret.summary.highly_relevant > 0
  /\ ret.summary.moderately_relevant > 0
  /\ ret.summary.weakly_relevant > 0

=============================================================================
